---------------------------- MODULE Spec2Model ----------------------------
(***************************************************************************)
(* proktree: the process list rendered as an ancestry tree.                *)
(*                                                                         *)
(* The model follows main() of src/proktree.go (lines 30-152): the         *)
(* relationship builder, filterProcesses, the sort of the root pids and    *)
(* the recursive renderer printProcessTree.  A Go string is a sequence of  *)
(* runes; a rune is a one-character string, and the box-drawing glyphs are *)
(* written by their code points ("u2500" is U+2500).                       *)
(***************************************************************************)
EXTENDS Integers, Sequences, FiniteSets, TLC

VARIABLES
    pc,            \* position in main(): start, built, filtered, sorted, print
    processes,     \* the records returned by platform.GetProcesses()
    cli,           \* the parsed command line (the four filter lists)
    pidToProcess,  \* map[int]*Process
    pidToChildren, \* map[int][]int
    skipPids,      \* map[int]bool, as the set of keys mapped to true
    proktreePid,   \* the skip anchor found by the builder, -1 when none
    matchingPids,  \* what findMatchingPids returned (filtered mode only)
    pidsToShow,    \* the display set: [isNil, pids]
    rootPids,      \* []int
    rootIdx,       \* the index i of the loop over rootPids in main()
    out,           \* the process lines written so far, in order
    now,           \* the clock that time.Now() reads
    maxUserLen,    \* the width of the USER column
    maxStartLen,   \* the width of the START column
    maxTimeLen,    \* the width of the TIME column
    fn,            \* the function under execution
    fnArgs,        \* its arguments
    fnRet,         \* what it returned, << >> until it has
    locals         \* the local variables of a loop that runs step by step

callVars == << fn, fnArgs, fnRet, locals >>

vars == << pc, processes, cli, pidToProcess, pidToChildren, skipPids,
           proktreePid, matchingPids, pidsToShow, rootPids, rootIdx, out,
           now, maxUserLen, maxStartLen, maxTimeLen, fn, fnArgs, fnRet,
           locals >>

-----------------------------------------------------------------------------
(* Bounds of the model *)

\* pids of the snapshot are drawn from 1..MaxPid
MaxPid == 3

Pids == 1 .. MaxPid

-----------------------------------------------------------------------------
(* Strings *)

UpperRunes == << "A","B","C","D","E","F","G","H","I","J","K","L","M",
                 "N","O","P","Q","R","S","T","U","V","W","X","Y","Z" >>
LowerRunes == << "a","b","c","d","e","f","g","h","i","j","k","l","m",
                 "n","o","p","q","r","s","t","u","v","w","x","y","z" >>

\* unicode.ToLower on one rune (ASCII letters; every other rune is kept)
ToLowerRune(r) ==
    IF \E k \in 1 .. Len(UpperRunes) : UpperRunes[k] = r
    THEN LowerRunes[CHOOSE k \in 1 .. Len(UpperRunes) : UpperRunes[k] = r]
    ELSE r

\* strings.ToLower
ToLower(s) == [k \in 1 .. Len(s) |-> ToLowerRune(s[k])]

\* strings.Contains(s, substr)
Contains(s, substr) ==
    \E k \in 0 .. (Len(s) - Len(substr)) :
        SubSeq(s, k + 1, k + Len(substr)) = substr

\* strings.HasPrefix(s, prefix)
HasPrefix(s, prefix) ==
    /\ Len(s) >= Len(prefix)
    /\ SubSeq(s, 1, Len(prefix)) = prefix

Digits == << "0","1","2","3","4","5","6","7","8","9" >>

\* strconv.Itoa for a non-negative int
RECURSIVE Itoa(_)
Itoa(n) ==
    IF n < 10 THEN << Digits[n + 1] >>
    ELSE Itoa(n \div 10) \o << Digits[(n % 10) + 1] >>

\* the literals of the builder
ToolName == << "p","r","o","k","t","r","e","e" >>
PsPrefix == << "p","s"," " >>

-----------------------------------------------------------------------------
(* Go maps and slices *)

\* m[k] of a map[int][]int: the nil slice when k is no key
ChildrenOf(children, pid) ==
    IF pid \in DOMAIN children THEN children[pid] ELSE << >>

\* m[k] = v
MapPut(m, k, v) ==
    [x \in (DOMAIN m) \cup {k} |-> IF x = k THEN v ELSE m[x]]

\* pidsToShow[pid] of the (possibly nil) display set
Shows(show, pid) == pid \in show.pids

NilShow == [isNil |-> TRUE, pids |-> {}]

RECURSIVE InsertSorted(_, _)
InsertSorted(s, x) ==
    IF s = << >> THEN << x >>
    ELSE IF x <= Head(s) THEN << x >> \o s
    ELSE << Head(s) >> \o InsertSorted(Tail(s), x)

\* a sort that leaves the slice as it is
SortInts_Unsorted(s) == s

\* sort.Ints
RECURSIVE SortInts(_)
SortInts(s) ==
    IF s = << >> THEN << >>
    ELSE InsertSorted(SortInts(Tail(s)), Head(s))

Range(s) == { s[k] : k \in 1 .. Len(s) }

\* the orders in which a map with key set S may be iterated
Orderings(S) ==
    { s \in [1 .. Cardinality(S) -> S] : Range(s) = S }

-----------------------------------------------------------------------------
(* Relationship builder: main(), lines 60-88 *)

\* a loop that keeps the first record whose command holds the tool's name
RECURSIVE BuildLoop_FirstAnchor(_, _, _, _, _, _)
BuildLoop_FirstAnchor(procs, i, byPid, children, skip, anchor) ==
    IF i > Len(procs)
    THEN [byPid |-> byPid, children |-> children, skip |-> skip, anchor |-> anchor]
    ELSE LET p == procs[i]
             hit == Contains(p.Command, ToolName)
         IN  BuildLoop_FirstAnchor(procs, i + 1,
                 MapPut(byPid, p.PID, p),
                 IF p.PPID > 0
                 THEN MapPut(children, p.PPID,
                             Append(ChildrenOf(children, p.PPID), p.PID))
                 ELSE children,
                 IF hit THEN skip \cup {p.PID} ELSE skip,
                 IF hit /\ anchor = -1 THEN p.PID ELSE anchor)

\* the loop over the records (lines 67-79), from record i on
RECURSIVE BuildLoop(_, _, _, _, _, _)
BuildLoop(procs, i, byPid, children, skip, anchor) ==
    IF i > Len(procs)
    THEN [byPid |-> byPid, children |-> children, skip |-> skip, anchor |-> anchor]
    ELSE LET p == procs[i]
             hit == Contains(p.Command, ToolName)
         IN  BuildLoop(procs, i + 1,
                 MapPut(byPid, p.PID, p),
                 IF p.PPID > 0
                 THEN MapPut(children, p.PPID,
                             Append(ChildrenOf(children, p.PPID), p.PID))
                 ELSE children,
                 IF hit THEN skip \cup {p.PID} ELSE skip,
                 IF hit THEN p.PID ELSE anchor)

\* a pass that skips every child of the anchor, whatever its command
PsChildren_AnyCommand(byPid, children, anchor) ==
    IF anchor > 0
    THEN { c \in Range(ChildrenOf(children, anchor)) : c \in DOMAIN byPid }
    ELSE {}

\* the ps children of the anchor (lines 82-88)
PsChildren(byPid, children, anchor) ==
    IF anchor > 0
    THEN { c \in Range(ChildrenOf(children, anchor)) :
             /\ c \in DOMAIN byPid
             /\ HasPrefix(byPid[c].Command, PsPrefix) }
    ELSE {}

BuildGraph(procs) ==
    LET b == BuildLoop(procs, 1, << >>, << >>, {}, -1)
    IN  [b EXCEPT !.skip = b.skip \cup PsChildren(b.byPid, b.children, b.anchor)]

-----------------------------------------------------------------------------
(* Filter engine: lines 371-481 *)

\* len(filters.PIDs) > 0 || ... (line 373)
HasFilters(filters) ==
    \/ Len(filters.PIDs) > 0
    \/ Len(filters.Users) > 0
    \/ Len(filters.SearchStrings) > 0
    \/ Len(filters.SearchStringsCase) > 0

\* the four loops of findMatchingPids over one process (lines 410-436)
RECURSIVE PidLoop(_, _, _)
PidLoop(p, list, k) ==
    IF k > Len(list) THEN FALSE
    ELSE (Itoa(p.PID) = list[k]) \/ PidLoop(p, list, k + 1)

RECURSIVE UserLoop(_, _, _)
UserLoop(p, list, k) ==
    IF k > Len(list) THEN FALSE
    ELSE (p.User = list[k]) \/ UserLoop(p, list, k + 1)

RECURSIVE StringLoop(_, _, _)
StringLoop(p, list, k) ==
    IF k > Len(list) THEN FALSE
    ELSE Contains(p.Command, list[k]) \/ StringLoop(p, list, k + 1)

RECURSIVE StringCaseLoop(_, _, _)
StringCaseLoop(p, list, k) ==
    IF k > Len(list) THEN FALSE
    ELSE Contains(ToLower(p.Command), ToLower(list[k]))
           \/ StringCaseLoop(p, list, k + 1)

\* a loop body that marks p only when every active list has a matching entry
MarksProcess_And(p, skip, filters) ==
    IF p.PID \in skip THEN FALSE
    ELSE /\ (Len(filters.PIDs) > 0 => PidLoop(p, filters.PIDs, 1))
         /\ (Len(filters.Users) > 0 => UserLoop(p, filters.Users, 1))
         /\ (Len(filters.SearchStrings) > 0
                => StringLoop(p, filters.SearchStrings, 1))
         /\ (Len(filters.SearchStringsCase) > 0
                => StringCaseLoop(p, filters.SearchStringsCase, 1))

\* whether the loop body marks p (lines 406-436)
MarksProcess(p, skip, filters) ==
    IF p.PID \in skip THEN FALSE
    ELSE \/ PidLoop(p, filters.PIDs, 1)
         \/ UserLoop(p, filters.Users, 1)
         \/ StringLoop(p, filters.SearchStrings, 1)
         \/ StringCaseLoop(p, filters.SearchStringsCase, 1)

findMatchingPids(byPid, skip, filters) ==
    { byPid[k].PID : k \in { x \in DOMAIN byPid : MarksProcess(byPid[x], skip, filters) } }

\* an upward walk that stops at the parent
AncestorWalk_ParentOnly(byPid, current) ==
    IF current \in DOMAIN byPid /\ byPid[current].PPID > 0
    THEN {byPid[current].PPID}
    ELSE {}

\* the upward walk from current (lines 451-459): the pids it adds
RECURSIVE AncestorWalk(_, _)
AncestorWalk(byPid, current) ==
    IF current \in DOMAIN byPid /\ byPid[current].PPID > 0
    THEN {byPid[current].PPID} \cup AncestorWalk(byPid, byPid[current].PPID)
    ELSE {}

\* the inner loop over the children of the dequeued pid (lines 470-476), from
\* child k on; st is [queue, visited, added]
RECURSIVE EnqueueChildren(_, _, _)
EnqueueChildren(kids, k, st) ==
    IF k > Len(kids) THEN st
    ELSE IF kids[k] \in st.visited THEN EnqueueChildren(kids, k + 1, st)
    ELSE EnqueueChildren(kids, k + 1,
            [queue   |-> Append(st.queue, kids[k]),
             visited |-> st.visited \cup {kids[k]},
             added   |-> st.added \cup {kids[k]}])

\* the breadth-first loop (lines 466-477): the pids it adds
RECURSIVE DescendantLoop(_, _)
DescendantLoop(children, st) ==
    IF Len(st.queue) = 0 THEN st.added
    ELSE DescendantLoop(children,
            EnqueueChildren(ChildrenOf(children, Head(st.queue)), 1,
                            [st EXCEPT !.queue = Tail(st.queue)]))

\* what one iteration of the loop over the matches adds (lines 446-478)
ExpandOne(byPid, children, pid) ==
    {pid} \cup AncestorWalk(byPid, pid)
          \cup DescendantLoop(children,
                   [queue |-> << pid >>, visited |-> {pid}, added |-> {}])

expandToAncestorsAndDescendants(byPid, children, matching) ==
    UNION { ExpandOne(byPid, children, pid) : pid \in matching }

\* roots with filters that also take a displayed pid whose parent is absent
FilteredRoots_AbsentParent(byPid, show) ==
    { pid \in DOMAIN byPid :
        /\ byPid[pid].PPID = 0 \/ byPid[pid].PPID \notin DOMAIN byPid
        /\ Shows(show, pid) }

\* roots with filters that take every displayed pid
FilteredRoots_EveryShown(byPid, show) ==
    { pid \in DOMAIN byPid : Shows(show, pid) }

\* the root pids collected with filters (lines 383-387), as a set
FilteredRoots(byPid, show) ==
    { pid \in DOMAIN byPid : byPid[pid].PPID = 0 /\ Shows(show, pid) }

\* roots without filters that take only the pids with ppid 0
TrueRoots_OnlyPpidZero(byPid) ==
    { pid \in DOMAIN byPid : byPid[pid].PPID = 0 }

\* roots without filters that take every pid
TrueRoots_Everyone(byPid) == DOMAIN byPid

\* the root pids collected without filters (lines 391-395), as a set
TrueRoots(byPid) ==
    { pid \in DOMAIN byPid :
        byPid[pid].PPID = 0 \/ byPid[pid].PPID \notin DOMAIN byPid }

\* a filter engine that shows everything when nothing matches
filterProcesses_ShowAllWhenNoMatch(byPid, children, skip, filters) ==
    IF HasFilters(filters) /\ findMatchingPids(byPid, skip, filters) # {}
    THEN LET matching == findMatchingPids(byPid, skip, filters)
             show == [isNil |-> FALSE,
                      pids  |-> expandToAncestorsAndDescendants(byPid, children, matching)]
         IN  [matching |-> matching, show |-> show,
              roots |-> FilteredRoots(byPid, show)]
    ELSE [matching |-> {}, show |-> NilShow, roots |-> TrueRoots(byPid)]

\* filterProcesses but for the order of rootPids: [matching, show, roots]
filterProcesses(byPid, children, skip, filters) ==
    IF HasFilters(filters)
    THEN LET matching == findMatchingPids(byPid, skip, filters)
             show == [isNil |-> FALSE,
                      pids  |-> expandToAncestorsAndDescendants(byPid, children, matching)]
         IN  [matching |-> matching, show |-> show,
              roots |-> FilteredRoots(byPid, show)]
    ELSE [matching |-> {}, show |-> NilShow, roots |-> TrueRoots(byPid)]

-----------------------------------------------------------------------------
(* Tree renderer: printProcessTree, lines 155-263 *)

\* a loop that counts skipped children too
HasVisibleChild_CountsSkipped(children, skip, show, pid) ==
    \E k \in 1 .. Len(ChildrenOf(children, pid)) :
        show.isNil \/ Shows(show, ChildrenOf(children, pid)[k])

\* the loop of lines 177-184
HasVisibleChild(children, skip, show, pid) ==
    \E k \in 1 .. Len(ChildrenOf(children, pid)) :
        LET childPid == ChildrenOf(children, pid)[k]
        IN  /\ childPid \notin skip
            /\ (show.isNil \/ Shows(show, childPid))

\* lines 186-204
Branch(prefix, isLast, hasChildren) ==
    IF prefix = << >>
    THEN IF hasChildren THEN << "u2500", "u252C", "u2500" >>
                        ELSE << "u2500", "u2500", "u2500" >>
    ELSE IF isLast
    THEN IF hasChildren THEN << "u2514", "u2500", "u252C", "u2500" >>
                        ELSE << "u2514", "u2500", "u2500", "u2500" >>
    ELSE IF hasChildren THEN << "u251C", "u2500", "u252C", "u2500" >>
                        ELSE << "u251C", "u2500", "u2500", "u2500" >>

\* lines 250-257
ChildPrefix(prefix, isLast) ==
    IF prefix = << >> THEN << " " >>
    ELSE IF isLast THEN prefix \o << " ", " " >>
    ELSE prefix \o << "u2502", " " >>

\* lines 236-241
NonSkippedCount(childPids, skip) ==
    Cardinality({ k \in 1 .. Len(childPids) : childPids[k] \notin skip })

\* the line of lines 209-218, by the parts the tree decides
TreeLine(p, prefix, branch) ==
    [pid |-> p.PID, prefix |-> prefix, branch |-> branch,
     tree |-> prefix \o branch \o << " " >>, command |-> p.Command]

RECURSIVE printProcessTree(_, _, _, _, _, _, _)
RECURSIVE PrintNode(_, _, _, _, _, _, _)
RECURSIVE PrintChildren(_, _, _, _, _, _, _, _, _, _)

\* a renderer that lacks the return of lines 158-160
printProcessTree_NoSkipReturn(procs, children, skip, show, pid, prefix, isLast) ==
    IF pid \notin DOMAIN procs THEN << >>
    ELSE PrintNode(procs, children, skip, show, pid, prefix, isLast)

\* a renderer that drops the line of a skipped pid and still walks its children
printProcessTree_SkipLineOnly(procs, children, skip, show, pid, prefix, isLast) ==
    IF pid \notin DOMAIN procs THEN << >>
    ELSE IF pid \in skip
    THEN PrintChildren(procs, children, skip, show,
                       SortInts(ChildrenOf(children, pid)), 1, 0,
                       NonSkippedCount(ChildrenOf(children, pid), skip),
                       prefix, isLast)
    ELSE PrintNode(procs, children, skip, show, pid, prefix, isLast)

\* the lines one call writes, its recursive calls included
printProcessTree(procs, children, skip, show, pid, prefix, isLast) ==
    IF pid \in skip THEN << >>
    ELSE IF pid \notin DOMAIN procs THEN << >>
    ELSE PrintNode(procs, children, skip, show, pid, prefix, isLast)

\* the call past its two early returns (lines 167-262)
PrintNode(procs, children, skip, show, pid, prefix, isLast) ==
    LET shouldDisplay == show.isNil \/ Shows(show, pid)
        hasChildren == HasVisibleChild(children, skip, show, pid)
        branch == Branch(prefix, isLast, hasChildren)
        childPids == SortInts(ChildrenOf(children, pid))
    IN  (IF shouldDisplay
         THEN << TreeLine(procs[pid], prefix, branch) >>
         ELSE << >>)
        \o PrintChildren(procs, children, skip, show, childPids, 1, 0,
                         NonSkippedCount(childPids, skip), prefix, isLast)

\* the loop of lines 243-262, from child k on
PrintChildren(procs, children, skip, show, childPids, k, printed, nonSkippedCount, prefix, isLast) ==
    IF k > Len(childPids) THEN << >>
    ELSE IF childPids[k] \in skip
    THEN PrintChildren(procs, children, skip, show, childPids, k + 1, printed,
                       nonSkippedCount, prefix, isLast)
    ELSE printProcessTree(procs, children, skip, show, childPids[k],
                          ChildPrefix(prefix, isLast),
                          printed + 1 = nonSkippedCount)
         \o PrintChildren(procs, children, skip, show, childPids, k + 1,
                          printed + 1, nonSkippedCount, prefix, isLast)

\* the pids whose call reaches the in-place sort of line 234
RECURSIVE Walked(_, _, _, _)
Walked(procs, children, skip, pid) ==
    IF pid \in skip \/ pid \notin DOMAIN procs THEN {}
    ELSE {pid} \cup UNION { Walked(procs, children, skip, c) :
                              c \in Range(ChildrenOf(children, pid)) \ skip }

\* a walk whose read of children[pid] leaves an empty entry behind
SortedIn_InsertsOnRead(children, W) ==
    [k \in DOMAIN children \cup W |->
        IF k \in DOMAIN children THEN SortInts(children[k]) ELSE << >>]

\* the children map after the calls on the pids of W sorted their slices
SortedIn(children, W) ==
    [k \in DOMAIN children |->
        IF k \in W THEN SortInts(children[k]) ELSE children[k]]

-----------------------------------------------------------------------------
(* The formatters, lines 266-369, and the fmt verbs they are used with *)

Spaces(n) == [i \in 1 .. n |-> " "]

\* %Nd and %Ns: right-justified in at least w columns
PadLeft(s, w) == Spaces(w - Len(s)) \o s

\* %-Ns: left-justified in at least w columns
PadRight(s, w) == s \o Spaces(w - Len(s))

\* %0Nd of a non-negative integer, and the zero-padded fields of time.Format
ZeroPad(n, w) == [i \in 1 .. (w - Len(Itoa(n))) |-> "0"] \o Itoa(n)

\* %.1f of the quotient num/den of two integers, den a power of two: the
\* quotient is exact in a float64, and the nearest tenth is printed, a tie
\* going to the even digit
Fixed1(num, den) ==
    LET q == (10 * num) \div den
        r == (10 * num) % den
        tenths == IF 2 * r > den \/ (2 * r = den /\ q % 2 = 1)
                  THEN q + 1 ELSE q
    IN  Itoa(tenths \div 10) \o << "." >> \o Itoa(tenths % 10)

\* strings.TrimSpace
RECURSIVE TrimLeft(_)
TrimLeft(s) ==
    IF s # << >> /\ Head(s) = " " THEN TrimLeft(Tail(s)) ELSE s

RECURSIVE TrimRight(_)
TrimRight(s) ==
    IF s # << >> /\ s[Len(s)] = " "
    THEN TrimRight(SubSeq(s, 1, Len(s) - 1)) ELSE s

TrimSpace(s) == TrimRight(TrimLeft(s))

centerText_LeftHeavy(text, width) ==
    LET padding == width - Len(text)
        rightPad == padding \div 2
        leftPad == padding - rightPad
    IN  IF padding <= 0 THEN text
        ELSE Spaces(leftPad) \o text \o Spaces(rightPad)

\* lines 266-274
centerText(text, width) ==
    LET padding == width - Len(text)
        leftPad == padding \div 2
        rightPad == padding - leftPad
    IN  IF padding <= 0 THEN text
        ELSE Spaces(leftPad) \o text \o Spaces(rightPad)

truncateUser_Below10(user, showFullUser) ==
    IF showFullUser THEN user
    ELSE IF Len(user) < 10 THEN user
    ELSE SubSeq(user, 1, 7) \o << ".", ".", "." >>

\* lines 276-284; showFullUser is the global cli.ShowFullUser
truncateUser(user, showFullUser) ==
    IF showFullUser THEN user
    ELSE IF Len(user) <= 10 THEN user
    ELSE SubSeq(user, 1, 7) \o << ".", ".", "." >>

formatRSS_Above(rssKB) ==
    IF rssKB > 1048576
    THEN Fixed1(rssKB, 1048576) \o << "G" >>
    ELSE Fixed1(rssKB, 1024) \o << "M" >>

\* lines 322-328; rssKB is the whole number of kilobytes that ps reports
formatRSS(rssKB) ==
    IF rssKB >= 1048576
    THEN Fixed1(rssKB, 1048576) \o << "G" >>
    ELSE Fixed1(rssKB, 1024) \o << "M" >>

(* A time.Time is [sec, off]: the seconds from 1 January of EpochYear, 0h UTC, *)
(* and the offset of its location east of UTC in seconds.  A *time.Time is  *)
(* [isNil, sec, off].                                                       *)
EpochYear == 2022

NilTime == [isNil |-> TRUE, sec |-> 0, off |-> 0]

At(sec, off) == [isNil |-> FALSE, sec |-> sec, off |-> off]

IsLeap(y) == (y % 4 = 0 /\ y % 100 # 0) \/ y % 400 = 0

DaysInYear(y) == IF IsLeap(y) THEN 366 ELSE 365

DaysInMonth(y, m) ==
    << 31, IF IsLeap(y) THEN 29 ELSE 28, 31, 30, 31, 30,
       31, 31, 30, 31, 30, 31 >>[m]

MonthNames ==
    << << "J","a","n" >>, << "F","e","b" >>, << "M","a","r" >>,
       << "A","p","r" >>, << "M","a","y" >>, << "J","u","n" >>,
       << "J","u","l" >>, << "A","u","g" >>, << "S","e","p" >>,
       << "O","c","t" >>, << "N","o","v" >>, << "D","e","c" >> >>

\* the year and the day of the year of the d-th day counted from 1 January of y
RECURSIVE YearFrom(_, _)
YearFrom(y, d) ==
    IF d < DaysInYear(y) THEN [year |-> y, yday |-> d]
    ELSE YearFrom(y + 1, d - DaysInYear(y))

RECURSIVE MonthFrom(_, _, _)
MonthFrom(y, m, d) ==
    IF d < DaysInMonth(y, m) THEN [month |-> m, day |-> d + 1]
    ELSE MonthFrom(y, m + 1, d - DaysInMonth(y, m))

\* the wall clock fields of t in its own location
Civil(t) ==
    LET local == t.sec + t.off
        yd == YearFrom(EpochYear, local \div 86400)
        md == MonthFrom(yd.year, 1, yd.yday)
    IN  [year |-> yd.year, month |-> md.month, day |-> md.day,
         hour |-> (local % 86400) \div 3600,
         minute |-> (local % 3600) \div 60]

formatStartTime_YearFirst(startTime, clock) ==
    IF startTime.isNil THEN << "-", "-" >>
    ELSE LET c == Civil(startTime)
         IN  IF c.year # Civil(clock).year
             THEN ZeroPad(c.year, 4)
             ELSE IF clock.sec - startTime.sec < 24 * 3600
             THEN ZeroPad(c.hour, 2) \o << ":" >> \o ZeroPad(c.minute, 2)
             ELSE MonthNames[c.month] \o ZeroPad(c.day, 2)

\* lines 330-349; clock is what time.Now() returns
formatStartTime(startTime, clock) ==
    IF startTime.isNil THEN << "-", "-" >>
    ELSE LET c == Civil(startTime)
         IN  IF clock.sec - startTime.sec < 24 * 3600
             THEN ZeroPad(c.hour, 2) \o << ":" >> \o ZeroPad(c.minute, 2)
             ELSE IF c.year = Civil(clock).year
             THEN MonthNames[c.month] \o ZeroPad(c.day, 2)
             ELSE ZeroPad(c.year, 4)

(* A time.Duration is [sec, nsec], the whole seconds and the nanoseconds    *)
(* below a second.  ps reports cpu time in hundredths of a second at the    *)
(* finest, and for such a value int(d.Seconds()) is the whole seconds.      *)
Duration(sec, nsec) == [sec |-> sec, nsec |-> nsec]

formatCPUTime_Above24(cpuTime) ==
    IF cpuTime = Duration(0, 0) THEN Spaces(6) \o << "-", "-" >>
    ELSE LET totalSeconds == cpuTime.sec
             hours == totalSeconds \div 3600
             minutes == (totalSeconds % 3600) \div 60
             seconds == totalSeconds % 60
         IN  IF hours > 24
             THEN PadLeft(Itoa(hours), 5) \o << "h", "r", "s" >>
             ELSE ZeroPad(hours, 2) \o << ":" >> \o ZeroPad(minutes, 2)
                  \o << ":" >> \o ZeroPad(seconds, 2)

\* lines 351-369
formatCPUTime(cpuTime) ==
    IF cpuTime = Duration(0, 0) THEN Spaces(6) \o << "-", "-" >>
    ELSE LET totalSeconds == cpuTime.sec
             hours == totalSeconds \div 3600
             minutes == (totalSeconds % 3600) \div 60
             seconds == totalSeconds % 60
         IN  IF hours >= 24
             THEN PadLeft(Itoa(hours), 5) \o << "h", "r", "s" >>
             ELSE ZeroPad(hours, 2) \o << ":" >> \o ZeroPad(minutes, 2)
                  \o << ":" >> \o ZeroPad(seconds, 2)

(* The Linux cpu time reader, src/unnamed/part_001 lines 225-250 *)

\* strings.Index(s, c) for a one-character c: the place of the first c in s,
\* counted from 0, or -1
IndexOf(s, c) ==
    IF \E k \in 1 .. Len(s) : s[k] = c
    THEN (CHOOSE k \in 1 .. Len(s) :
              s[k] = c /\ \A j \in 1 .. (k - 1) : s[j] # c) - 1
    ELSE -1

\* strings.Split(s, sep) for a one-character sep
RECURSIVE Split(_, _)
Split(s, sep) ==
    LET idx == IndexOf(s, sep)
    IN  IF idx < 0 THEN << s >>
        ELSE << SubSeq(s, 1, idx) >> \o Split(SubSeq(s, idx + 2, Len(s)), sep)

\* the number a string of decimal digits writes
RECURSIVE DecimalValue(_)
DecimalValue(s) ==
    IF s = << >> THEN 0
    ELSE 10 * DecimalValue(SubSeq(s, 1, Len(s) - 1))
         + (CHOOSE d \in 0 .. 9 : Digits[d + 1] = s[Len(s)])

\* strconv.Atoi with its error dropped (n, _ := ...): 0 for a string that is
\* not an optional sign and decimal digits; all numbers read here fit an int
Atoi(s) ==
    LET IsDigits(t) == t # << >> /\ \A k \in 1 .. Len(t) : t[k] \in Range(Digits)
    IN  IF IsDigits(s) THEN DecimalValue(s)
        ELSE IF Len(s) > 1 /\ s[1] = "+" /\ IsDigits(Tail(s))
        THEN DecimalValue(Tail(s))
        ELSE IF Len(s) > 1 /\ s[1] = "-" /\ IsDigits(Tail(s))
        THEN 0 - DecimalValue(Tail(s))
        ELSE 0

\* a reader that drops the days
parseLinuxCPUTime_NoDays(timeStr) ==
    IF timeStr = << >> \/ timeStr = << "0","0",":","0","0",":","0","0" >>
    THEN Duration(0, 0)
    ELSE LET idx == IndexOf(timeStr, "-")
             rest == IF idx > 0 THEN SubSeq(timeStr, idx + 2, Len(timeStr))
                     ELSE timeStr
             parts == Split(rest, ":")
         IN  IF Len(parts) # 3 THEN Duration(0, 0)
             ELSE Duration(Atoi(parts[1]) * 3600 + Atoi(parts[2]) * 60
                           + Atoi(parts[3]), 0)

\* part_001 lines 225-250
parseLinuxCPUTime(timeStr) ==
    IF timeStr = << >> \/ timeStr = << "0","0",":","0","0",":","0","0" >>
    THEN Duration(0, 0)
    ELSE LET idx == IndexOf(timeStr, "-")
             days == IF idx > 0 THEN Atoi(SubSeq(timeStr, 1, idx)) ELSE 0
             rest == IF idx > 0 THEN SubSeq(timeStr, idx + 2, Len(timeStr))
                     ELSE timeStr
             parts == Split(rest, ":")
         IN  IF Len(parts) # 3 THEN Duration(0, 0)
             ELSE LET hours == Atoi(parts[1])
                      mins == Atoi(parts[2])
                      secs == Atoi(parts[3])
                      totalHours == days * 24 + hours
                  IN  Duration(totalHours * 3600 + mins * 60 + secs, 0)

(* The assembled line, lines 207-230 *)

Glyphs == { "u2500", "u252C", "u2514", "u251C", "u2502" }

\* the bytes of the UTF-8 encoding of a rune: three for a box-drawing glyph
ByteLen(r) == IF r \in Glyphs THEN 3 ELSE 1

\* len(s) of a Go string: its bytes
RECURSIVE Bytes(_)
Bytes(s) == IF s = << >> THEN 0 ELSE ByteLen(Head(s)) + Bytes(Tail(s))

\* %5.1f of a percentage that ps printed with one decimal, given in tenths
Percent(tenths) ==
    PadLeft(Itoa(tenths \div 10) \o << "." >> \o Itoa(tenths % 10), 5)

\* lines 208-218: the Sprintf of the columns, the tree graphics and the command
FormatLine(p, w, prefix, branch, showFullUser, clock) ==
    LET treeStr == IF branch # << >> THEN prefix \o branch \o << " " >>
                   ELSE prefix \o branch
    IN  PadLeft(Itoa(p.PID), 7) \o << " " >>
        \o PadRight(truncateUser(p.User, showFullUser), w.maxUserLen)
        \o << " " >> \o Percent(p.CPUPct) \o << " " >> \o Percent(p.MemPct)
        \o << " " >> \o PadLeft(formatRSS(p.RSSKB), 6) \o << " ", " " >>
        \o PadRight(formatStartTime(p.StartTime, clock), w.maxStartLen)
        \o << " ", " " >>
        \o PadRight(formatCPUTime(p.CPUTime), w.maxTimeLen) \o << " ", " " >>
        \o treeStr \o p.Command

\* a cut that keeps termWidth display characters ahead of the dots
TruncateLine_KeepsWidth(line, termWidth, showFullCommand) ==
    IF ~showFullCommand /\ termWidth > 0 /\ Bytes(line) > termWidth
       /\ termWidth > 3
    THEN IF Len(line) > termWidth - 3
         THEN SubSeq(line, 1, termWidth) \o << ".", ".", "." >>
         ELSE line
    ELSE line

\* lines 220-228
TruncateLine(line, termWidth, showFullCommand) ==
    IF ~showFullCommand /\ termWidth > 0 /\ Bytes(line) > termWidth
       /\ termWidth > 3
    THEN IF Len(line) > termWidth - 3
         THEN SubSeq(line, 1, termWidth - 3) \o << ".", ".", "." >>
         ELSE line
    ELSE line

(* The command line, lines 31-50 and 483-502 *)

UserFlags == { << "-", "u" >>, << "-", "-", "u", "s", "e", "r" >> }

\* append(processedArgs[:i], processedArgs[i+1:]...), i counted from 0
RemoveAt(s, i) == SubSeq(s, 1, i) \o SubSeq(s, i + 2, Len(s))

RECURSIVE ParseLoop_NoStepBack(_, _, _)
ParseLoop_NoStepBack(processedArgs, i, userFlagWithoutArg) ==
    IF i >= Len(processedArgs)
    THEN [args |-> processedArgs, userFlagWithoutArg |-> userFlagWithoutArg]
    ELSE IF /\ processedArgs[i + 1] \in UserFlags
            /\ \/ i + 1 >= Len(processedArgs)
               \/ HasPrefix(processedArgs[i + 2], << "-" >>)
    THEN ParseLoop_NoStepBack(RemoveAt(processedArgs, i), i + 1, TRUE)
    ELSE ParseLoop_NoStepBack(processedArgs, i + 1, userFlagWithoutArg)

\* lines 489-499: the loop from index i on, i counted from 0; after a removal
\* i-- and the i++ of the loop leave i where it is
RECURSIVE ParseLoop(_, _, _)
ParseLoop(processedArgs, i, userFlagWithoutArg) ==
    IF i >= Len(processedArgs)
    THEN [args |-> processedArgs, userFlagWithoutArg |-> userFlagWithoutArg]
    ELSE IF /\ processedArgs[i + 1] \in UserFlags
            /\ \/ i + 1 >= Len(processedArgs)
               \/ HasPrefix(processedArgs[i + 2], << "-" >>)
    THEN ParseLoop(RemoveAt(processedArgs, i), i, TRUE)
    ELSE ParseLoop(processedArgs, i + 1, userFlagWithoutArg)

\* lines 483-502
parseUserArgs(args) == ParseLoop(args, 0, FALSE)

\* the field of CLI that a flag with a value fills, by the short and name
\* tags of lines 20-23; "" for any other argument
FieldOf(arg) ==
    IF arg \in { << "-","p" >>, << "-","-","p","i","d" >> } THEN "PIDs"
    ELSE IF arg \in UserFlags THEN "Users"
    ELSE IF arg \in { << "-","s" >>, << "-","-","s","t","r","i","n","g" >> }
    THEN "SearchStrings"
    ELSE IF arg \in { << "-","i" >>,
                      << "-","-","s","t","r","i","n","g","-",
                         "i","n","s","e","n","s","i","t","i","v","e" >> }
    THEN "SearchStringsCase"
    ELSE ""

\* the switches of lines 24 and 25
LongUsers == << "-","-","l","o","n","g","-","u","s","e","r","s" >>
LongCommands ==
    << "-","-","l","o","n","g","-","c","o","m","m","a","n","d","s" >>

\* kong.Parse (lines 36-43) from argument k on, each flag an argument of its
\* own: a flag of a list field takes the next argument as its value and
\* appends it, a switch sets its field; parsed is the struct so far.  A flag
\* whose value is missing or begins with "-", an argument that is no flag of
\* the struct (the command takes no positional argument) and -h end the
\* program before anything is stored: ok is FALSE.  ShowFullCommand is not a
\* field of the cli record here; the line printer takes it as an argument.
RECURSIVE KongLoop(_, _, _)
KongLoop(args, k, parsed) ==
    IF k > Len(args) THEN [ok |-> TRUE, cli |-> parsed]
    ELSE IF FieldOf(args[k]) # ""
    THEN IF k + 1 <= Len(args) /\ ~HasPrefix(args[k + 1], << "-" >>)
         THEN KongLoop(args, k + 2,
                  [parsed EXCEPT ![FieldOf(args[k])] = Append(@, args[k + 1])])
         ELSE [ok |-> FALSE, cli |-> parsed]
    ELSE IF args[k] = LongUsers
    THEN KongLoop(args, k + 1, [parsed EXCEPT !.ShowFullUser = TRUE])
    ELSE IF args[k] = LongCommands
    THEN KongLoop(args, k + 1, parsed)
    ELSE [ok |-> FALSE, cli |-> parsed]

\* lines 36-43: kong.Parse(&cli, ...) on the arguments parseUserArgs
\* returned, into the struct as it stands
KongParse(args, into) == KongLoop(args, 1, into)

\* lines 45-50: current is what user.Current() returned, [err, Username]
DefaultUser(users, userFlagWithoutArg, current) ==
    IF userFlagWithoutArg /\ ~current.err
    THEN Append(users, current.Username)
    ELSE users

-----------------------------------------------------------------------------
(* The inputs: a process snapshot and a command line *)

Root  == << "r","o","o","t" >>
Alice == << "a","l" >>

\* the first n runes of s
Prefix(s, n) == SubSeq(s, 1, n)

\* a user name of 16 characters
UserRunes == << "v","e","r","y","l","o","n","g","u","s","e","r","n","a","m","e" >>

\* what a process is besides its pid and ppid
Profile(user, command, startTime, cpuTime) ==
    [User |-> user, Command |-> command,
     StartTime |-> startTime, CPUTime |-> cpuTime]

Profiles ==
    { Profile(Root,  << "i","n","i","t" >>, NilTime, Duration(0, 0)),
      Profile(Alice, << "V","i" >>, NilTime, Duration(0, 0)),
      Profile(Alice, ToolName, NilTime, Duration(0, 0)),
      Profile(Alice, << "p","s"," ","a","x" >>, NilTime, Duration(0, 0)) }

\* pid -> ppid of a snapshot: some of the pids are running, and the parent of
\* each is 0, a pid started before it, or such a pid that has exited
ParentMaps ==
    UNION { { f \in [S -> 0 .. MaxPid] : \A p \in S : f[p] < p } :
            S \in SUBSET Pids }

\* the records of the pids of S, listed in ascending or descending pid order
RECURSIVE Listing(_, _, _, _)
Listing(S, f, pf, ascending) ==
    IF S = {} THEN << >>
    ELSE LET p == IF ascending
                  THEN CHOOSE x \in S : \A y \in S : x <= y
                  ELSE CHOOSE x \in S : \A y \in S : x >= y
         IN  << [PID |-> p, PPID |-> f[p],
                 User |-> pf[p].User, Command |-> pf[p].Command,
                 StartTime |-> pf[p].StartTime,
                 CPUTime |-> pf[p].CPUTime] >>
             \o Listing(S \ {p}, f, pf, ascending)

\* procs is the listing of a snapshot: of one of the parent maps, with the
\* profiles drawn from a set, in one of the orders
IsSnapshot(procs, maps, profiles, orders) ==
    \E f \in maps : \E pf \in [DOMAIN f -> profiles] : \E asc \in orders :
        procs = Listing(DOMAIN f, f, pf, asc)

NoFilters ==
    [PIDs |-> << >>, Users |-> << >>,
     SearchStrings |-> << >>, SearchStringsCase |-> << >>,
     ShowFullUser |-> FALSE]

FilterConfigs ==
    { NoFilters,
      [NoFilters EXCEPT !.PIDs = << << "2" >>, << "0","1" >> >>],
      [NoFilters EXCEPT !.Users = << Alice >>],
      [NoFilters EXCEPT !.SearchStrings = << << "v","i" >> >>],
      [NoFilters EXCEPT !.SearchStringsCase = << << "v","I" >> >>],
      [NoFilters EXCEPT !.Users = << Root >>,
                        !.SearchStrings = << << "V","i" >> >>] }

-----------------------------------------------------------------------------
(* main() *)

CalculateColumnWidths_FixedUser(byPid, showFullUser, clock) ==
    LET starts == { Len(formatStartTime(byPid[p].StartTime, clock)) :
                      p \in DOMAIN byPid }
        times == { Len(TrimSpace(formatCPUTime(byPid[p].CPUTime))) :
                     p \in DOMAIN byPid }
        Max(S) == CHOOSE x \in S : \A y \in S : y <= x
        timeLen == Max({4} \cup times)
    IN  [maxUserLen |-> 10,
         maxStartLen |-> Max({5} \cup starts),
         maxTimeLen |-> IF timeLen < 8 THEN 8 ELSE timeLen]

\* lines 99-126: the widths of the USER, START and TIME columns
CalculateColumnWidths(byPid, showFullUser, clock) ==
    LET users == { Len(truncateUser(byPid[p].User, showFullUser)) :
                     p \in DOMAIN byPid }
        starts == { Len(formatStartTime(byPid[p].StartTime, clock)) :
                      p \in DOMAIN byPid }
        times == { Len(TrimSpace(formatCPUTime(byPid[p].CPUTime))) :
                     p \in DOMAIN byPid }
        Max(S) == CHOOSE x \in S : \A y \in S : y <= x
        timeLen == Max({4} \cup times)
    IN  [maxUserLen |-> IF showFullUser THEN Max({10} \cup users) ELSE 10,
         maxStartLen |-> Max({5} \cup starts),
         maxTimeLen |-> IF timeLen < 8 THEN 8 ELSE timeLen]

\* noon of 1 July of EpochYear, UTC
Noon == At(181 * 86400 + 12 * 3600, 0)

\* the state main() starts in
Start ==
    /\ pc = "start"
    /\ pidToProcess = << >>
    /\ pidToChildren = << >>
    /\ skipPids = {}
    /\ proktreePid = -1
    /\ matchingPids = {}
    /\ pidsToShow = NilShow
    /\ rootPids = << >>
    /\ rootIdx = 0
    /\ out = << >>
    /\ maxUserLen = 0
    /\ maxStartLen = 0
    /\ maxTimeLen = 0
    /\ fn = "main"
    /\ fnArgs = << >>
    /\ fnRet = << >>
    /\ locals = << >>

Init ==
    /\ Start
    /\ IsSnapshot(processes, ParentMaps, Profiles, BOOLEAN)
    /\ cli \in FilterConfigs
    /\ now = Noon

\* lines 60-88
BuildRelationships ==
    /\ pc = "start"
    /\ LET g == BuildGraph(processes)
       IN  /\ pidToProcess' = g.byPid
           /\ pidToChildren' = g.children
           /\ skipPids' = g.skip
           /\ proktreePid' = g.anchor
    /\ pc' = "built"
    /\ UNCHANGED << processes, cli, matchingPids, pidsToShow, rootPids, rootIdx,
                    out, now, maxUserLen, maxStartLen, maxTimeLen, callVars >>

\* line 91: rootPids is appended to in the iteration order of the map
FilterProcesses ==
    /\ pc = "built"
    /\ LET r == filterProcesses(pidToProcess, pidToChildren, skipPids, cli)
       IN  /\ matchingPids' = r.matching
           /\ pidsToShow' = r.show
           /\ \E order \in Orderings(r.roots) : rootPids' = order
    /\ pc' = "filtered"
    /\ UNCHANGED << processes, cli, pidToProcess, pidToChildren, skipPids,
                    proktreePid, rootIdx, out,
                    now, maxUserLen, maxStartLen, maxTimeLen, callVars >>

\* lines 93-94
SortRoots ==
    /\ pc = "filtered"
    /\ rootPids' = SortInts(rootPids)
    /\ pc' = "sorted"
    /\ UNCHANGED << processes, cli, pidToProcess, pidToChildren, skipPids,
                    proktreePid, matchingPids, pidsToShow, rootIdx, out,
                    now, maxUserLen, maxStartLen, maxTimeLen, callVars >>

\* lines 99-126
ColumnWidths ==
    /\ pc = "sorted"
    /\ LET w == CalculateColumnWidths(pidToProcess, cli.ShowFullUser, now)
       IN  /\ maxUserLen' = w.maxUserLen
           /\ maxStartLen' = w.maxStartLen
           /\ maxTimeLen' = w.maxTimeLen
    /\ pc' = "print"
    /\ UNCHANGED << processes, cli, pidToProcess, pidToChildren, skipPids,
                    proktreePid, matchingPids, pidsToShow, rootPids, rootIdx,
                    out, now, callVars >>

\* one iteration of the loop of lines 148-151
PrintRoot ==
    /\ pc = "print"
    /\ rootIdx < Len(rootPids)
    /\ LET rootPid == rootPids[rootIdx + 1]
           isLast == rootIdx = Len(rootPids) - 1
       IN  /\ out' = out \o printProcessTree(pidToProcess, pidToChildren, skipPids,
                                             pidsToShow, rootPid, << >>, isLast)
           /\ pidToChildren' =
                  SortedIn(pidToChildren,
                           Walked(pidToProcess, pidToChildren, skipPids, rootPid))
    /\ rootIdx' = rootIdx + 1
    /\ UNCHANGED << pc, processes, cli, pidToProcess, skipPids, proktreePid,
                    matchingPids, pidsToShow, rootPids,
                    now, maxUserLen, maxStartLen, maxTimeLen, callVars >>

Next ==
    \/ BuildRelationships
    \/ FilterProcesses
    \/ SortRoots
    \/ ColumnWidths
    \/ PrintRoot

Spec == Init /\ [][Next]_vars

\* main() has returned
Done == pc = "print" /\ rootIdx = Len(rootPids)

-----------------------------------------------------------------------------
(* main() on snapshots whose users, start times and cpu times differ in     *)
(* length                                                                   *)

\* 1 July 2023 12:00 UTC
Midyear == At(546 * 86400 + 12 * 3600, 0)

WidthProfiles ==
    { Profile(Root, << "i","n","i","t" >>, NilTime, Duration(0, 0)),
      Profile(Alice, << "V","i" >>, At(Midyear.sec - 400 * 86400, 0),
              Duration(360000000, 0)),
      Profile(UserRunes, ToolName, At(Midyear.sec - 7200, 0),
              Duration(83, 450000000)),
      Profile(Prefix(UserRunes, 12), << "p","s"," ","a","x" >>,
              At(Midyear.sec - 172800, 0), Duration(90000, 0)) }

WidthConfigs ==
    { NoFilters,
      [NoFilters EXCEPT !.ShowFullUser = TRUE],
      [NoFilters EXCEPT !.Users = << Root >>, !.ShowFullUser = TRUE] }

WidthInit ==
    /\ Start
    /\ IsSnapshot(processes, ParentMaps, WidthProfiles, {TRUE})
    /\ cli \in WidthConfigs
    /\ now = Midyear

WidthSpec == WidthInit /\ [][Next]_vars

-----------------------------------------------------------------------------
(* main() on snapshots of one more pid, deep enough for a grandchild beside *)
(* an uncle                                                                 *)

DeepPids == 1 .. MaxPid + 1

DeepParentMaps ==
    UNION { { f \in [S -> 0 .. MaxPid] : \A p \in S : f[p] < p } :
            S \in SUBSET DeepPids }

DeepProfiles ==
    { Profile(Root,  << "i","n","i","t" >>, NilTime, Duration(0, 0)),
      Profile(Alice, << "V","i" >>, NilTime, Duration(0, 0)),
      Profile(Alice, ToolName, NilTime, Duration(0, 0)) }

DeepConfigs ==
    { NoFilters,
      [NoFilters EXCEPT !.PIDs = << << "2" >>, << "0","1" >> >>] }

DeepInit ==
    /\ Start
    /\ IsSnapshot(processes, DeepParentMaps, DeepProfiles, {TRUE})
    /\ cli \in DeepConfigs
    /\ now = Noon

DeepSpec == DeepInit /\ [][Next]_vars

-----------------------------------------------------------------------------
(* The loops of the filter engine and the calls of the renderer taken one   *)
(* iteration and one call at a time, on snapshots whose ppid links may lead *)
(* anywhere: to a later pid, to the process itself, around a cycle          *)

LoopParentMaps ==
    UNION { [S -> 0 .. MaxPid] : S \in SUBSET Pids }

\* the processes of a snapshot are editors of one user, but for the one with
\* pid tool, which is the tool itself
LoopProfile(S, tool) ==
    [p \in S |->
        IF p = tool
        THEN Profile(Alice, ToolName, NilTime, Duration(0, 0))
        ELSE Profile(Alice, << "V","i" >>, NilTime, Duration(0, 0))]

LoopConfigs ==
    { NoFilters,
      [NoFilters EXCEPT !.PIDs = << << "2" >>, << "3" >> >>] }

\* the tool is in the snapshots listed without filters
LoopInit ==
    /\ Start
    /\ cli \in LoopConfigs
    /\ \E f \in LoopParentMaps :
       \E tool \in {0} \cup (IF HasFilters(cli) THEN {} ELSE DOMAIN f) :
           processes = Listing(DOMAIN f, f, LoopProfile(DOMAIN f, tool), TRUE)
    /\ now = Noon

\* the local variables of expandToAncestorsAndDescendants at the head of its
\* loop over the matches (line 445): the matches still to come, the result;
\* turns is the number of turns of the upward loop, counted modulo 2
ExpandLocals(pending, show) ==
    [at |-> "pick", pending |-> pending, show |-> show,
     pid |-> 0, current |-> 0, turns |-> 0, queue |-> << >>, visited |-> {}]

\* lines 388-396: filterProcesses without filters
CollectRoots ==
    /\ pc = "built"
    /\ ~HasFilters(cli)
    /\ matchingPids' = {}
    /\ pidsToShow' = NilShow
    /\ \E order \in Orderings(TrueRoots(pidToProcess)) : rootPids' = order
    /\ pc' = "filtered"
    /\ UNCHANGED << processes, cli, pidToProcess, pidToChildren, skipPids,
                    proktreePid, rootIdx, out,
                    now, maxUserLen, maxStartLen, maxTimeLen, callVars >>

\* lines 377-379 and 443: filterProcesses with filters, up to the loop of
\* expandToAncestorsAndDescendants
FindMatches ==
    /\ pc = "built"
    /\ HasFilters(cli)
    /\ matchingPids' = findMatchingPids(pidToProcess, skipPids, cli)
    /\ locals' = ExpandLocals(matchingPids', {})
    /\ pc' = "expand"
    /\ UNCHANGED << processes, cli, pidToProcess, pidToChildren, skipPids,
                    proktreePid, pidsToShow, rootPids, rootIdx, out,
                    now, maxUserLen, maxStartLen, maxTimeLen, fn, fnArgs, fnRet >>

\* lines 445-450: the next match, in the iteration order of the map
ExpandPick ==
    /\ pc = "expand"
    /\ locals.at = "pick"
    /\ \E pid \in locals.pending :
           locals' = [locals EXCEPT !.at = "up",
                                    !.pending = locals.pending \ {pid},
                                    !.show = locals.show \cup {pid},
                                    !.pid = pid,
                                    !.current = pid]
    /\ UNCHANGED << pc, processes, cli, pidToProcess, pidToChildren, skipPids,
                    proktreePid, matchingPids, pidsToShow, rootPids, rootIdx,
                    out, now, maxUserLen, maxStartLen, maxTimeLen,
                    fn, fnArgs, fnRet >>

\* one iteration of the loop of lines 451-459; its break runs on to lines
\* 462-464
AncestorStep ==
    /\ pc = "expand"
    /\ locals.at = "up"
    /\ IF /\ locals.current \in DOMAIN pidToProcess
          /\ pidToProcess[locals.current].PPID > 0
       THEN LET ppid == pidToProcess[locals.current].PPID
            IN  locals' = [locals EXCEPT !.show = locals.show \cup {ppid},
                                         !.current = ppid,
                                         !.turns = 1 - locals.turns]
       ELSE locals' = [locals EXCEPT !.at = "down",
                                     !.turns = 0,
                                     !.queue = << locals.pid >>,
                                     !.visited = {locals.pid}]
    /\ UNCHANGED << pc, processes, cli, pidToProcess, pidToChildren, skipPids,
                    proktreePid, matchingPids, pidsToShow, rootPids, rootIdx,
                    out, now, maxUserLen, maxStartLen, maxTimeLen,
                    fn, fnArgs, fnRet >>

\* one iteration of the loop of lines 466-477; when the queue is empty the
\* loop over the matches goes round
DescendantStep ==
    /\ pc = "expand"
    /\ locals.at = "down"
    /\ IF Len(locals.queue) > 0
       THEN LET st == EnqueueChildren(
                          ChildrenOf(pidToChildren, Head(locals.queue)), 1,
                          [queue   |-> Tail(locals.queue),
                           visited |-> locals.visited,
                           added   |-> {}])
            IN  locals' = [locals EXCEPT !.queue = st.queue,
                                         !.visited = st.visited,
                                         !.show = locals.show \cup st.added]
       ELSE locals' = ExpandLocals(locals.pending, locals.show)
    /\ UNCHANGED << pc, processes, cli, pidToProcess, pidToChildren, skipPids,
                    proktreePid, matchingPids, pidsToShow, rootPids, rootIdx,
                    out, now, maxUserLen, maxStartLen, maxTimeLen,
                    fn, fnArgs, fnRet >>

\* line 480 and lines 381-387: the display set is returned and the roots
\* are collected
ExpandReturn ==
    /\ pc = "expand"
    /\ locals.at = "pick"
    /\ locals.pending = {}
    /\ pidsToShow' = [isNil |-> FALSE, pids |-> locals.show]
    /\ \E order \in Orderings(FilteredRoots(pidToProcess, pidsToShow')) :
           rootPids' = order
    /\ locals' = << >>
    /\ pc' = "filtered"
    /\ UNCHANGED << processes, cli, pidToProcess, pidToChildren, skipPids,
                    proktreePid, matchingPids, rootIdx, out,
                    now, maxUserLen, maxStartLen, maxTimeLen, fn, fnArgs, fnRet >>

\* the arguments of one call of printProcessTree that is still to run
Frame(pid, prefix, isLast) ==
    [pid |-> pid, prefix |-> prefix, isLast |-> isLast]

\* the calls the loop of lines 243-262 makes, from child k on
RECURSIVE ChildFrames(_, _, _, _, _, _, _)
ChildFrames(childPids, k, printed, nonSkippedCount, skip, prefix, isLast) ==
    IF k > Len(childPids) THEN << >>
    ELSE IF childPids[k] \in skip
    THEN ChildFrames(childPids, k + 1, printed, nonSkippedCount, skip,
                     prefix, isLast)
    ELSE << Frame(childPids[k], ChildPrefix(prefix, isLast),
                  printed + 1 = nonSkippedCount) >>
         \o ChildFrames(childPids, k + 1, printed + 1, nonSkippedCount, skip,
                        prefix, isLast)

\* the calls still to run, first the one that runs next; none: the call on
\* the root has returned
Pending(stack) ==
    IF stack = << >> THEN << >> ELSE [stack |-> stack]

\* lines 148-151: the call on the next root begins
WalkRoot ==
    /\ pc = "print"
    /\ locals = << >>
    /\ rootIdx < Len(rootPids)
    /\ locals' = Pending(<< Frame(rootPids[rootIdx + 1], << >>,
                                  rootIdx = Len(rootPids) - 1) >>)
    /\ rootIdx' = rootIdx + 1
    /\ UNCHANGED << pc, processes, cli, pidToProcess, pidToChildren, skipPids,
                    proktreePid, matchingPids, pidsToShow, rootPids, out,
                    now, maxUserLen, maxStartLen, maxTimeLen, fn, fnArgs, fnRet >>

\* one call of printProcessTree (lines 155-263) up to its recursive calls,
\* which run next and in the order of the loop
WalkStep ==
    /\ pc = "print"
    /\ locals # << >>
    /\ LET f == Head(locals.stack)
           rest == Tail(locals.stack)
       IN  IF f.pid \in skipPids \/ f.pid \notin DOMAIN pidToProcess
           THEN /\ locals' = Pending(rest)
                /\ UNCHANGED << out, pidToChildren >>
           ELSE LET shouldDisplay == pidsToShow.isNil \/ Shows(pidsToShow, f.pid)
                    hasChildren == HasVisibleChild(pidToChildren, skipPids,
                                                   pidsToShow, f.pid)
                    branch == Branch(f.prefix, f.isLast, hasChildren)
                    childPids == SortInts(ChildrenOf(pidToChildren, f.pid))
                IN  /\ out' = IF shouldDisplay
                              THEN Append(out, TreeLine(pidToProcess[f.pid],
                                                        f.prefix, branch))
                              ELSE out
                    /\ pidToChildren' = SortedIn(pidToChildren, {f.pid})
                    /\ locals' = Pending(
                           ChildFrames(childPids, 1, 0,
                                       NonSkippedCount(childPids, skipPids),
                                       skipPids, f.prefix, f.isLast)
                           \o rest)
    /\ UNCHANGED << pc, processes, cli, pidToProcess, skipPids, proktreePid,
                    matchingPids, pidsToShow, rootPids, rootIdx,
                    now, maxUserLen, maxStartLen, maxTimeLen, fn, fnArgs, fnRet >>

LoopNext ==
    \/ BuildRelationships
    \/ CollectRoots
    \/ FindMatches
    \/ ExpandPick
    \/ AncestorStep
    \/ DescendantStep
    \/ ExpandReturn
    \/ SortRoots
    \/ ColumnWidths
    \/ WalkRoot
    \/ WalkStep

LoopSpec == LoopInit /\ [][LoopNext]_vars

\* main() is one thread that keeps running: whenever a statement can change
\* the state, one eventually does
LoopFairSpec == LoopSpec /\ WF_vars(LoopNext)

\* main() has returned
LoopDone == pc = "print" /\ rootIdx = Len(rootPids) /\ locals = << >>

\* a run of the ppid links that comes back to where it started
RECURSIVE OnCycleFrom(_, _, _, _)
OnCycleFrom(byPid, start, current, n) ==
    IF n = 0 \/ current \notin DOMAIN byPid THEN FALSE
    ELSE \/ byPid[current].PPID = start
         \/ OnCycleFrom(byPid, start, byPid[current].PPID, n - 1)

OnCycle(byPid, pid) == OnCycleFrom(byPid, pid, pid, Cardinality(DOMAIN byPid))

\* C21: whenever the display set is being computed, the computation returns
C21_ExpandTerminates == (pc = "expand") ~> (pc = "filtered")

-----------------------------------------------------------------------------
(* The formatters applied one call at a time: the arguments are drawn in    *)
(* the initial state and the call returns in one step.                      *)

MaxCpuHours == 25
MaxTextLen == 6
MaxWidth == 8
MaxUserChars == 12

TextRunes == << "H","I","J","K","L","M","N","O","P","Q","R","S","T","U" >>

\* cpu times: every hour up to MaxCpuHours at a few minutes and seconds, and
\* the two sides of 100000 hours, each with and without hundredths
CpuTimes ==
    { Duration(h * 3600 + ms, ns) :
        h \in 0 .. MaxCpuHours, ms \in {0, 1, 83, 3599},
        ns \in {0, 450000000, 990000000} }
    \cup { Duration(s, ns) : s \in {45296, 359999999, 360000000},
                             ns \in {0, 990000000} }

\* clocks: 1 July 2023 12:00, 1 January 2024 00:30 and 1 March 2024 10:00
\* UTC, and the last of them seen from seven hours west of UTC
Clocks ==
    { At(546 * 86400 + 12 * 3600, 0), At(730 * 86400 + 1800, 0),
      At(790 * 86400 + 10 * 3600, 0), At(790 * 86400 + 10 * 3600, -25200) }

\* start times: absent, or from an hour after the clock to 400 days before it
StartTimes(clock) ==
    { NilTime }
    \cup { At(clock.sec - age, off) :
             age \in {-3600, 0, 1, 7200, 86399, 86400, 86401, 172800,
                      400 * 86400},
             off \in {0, -25200} }

RssValues ==
    { 0, 1, 51, 256, 768, 1023, 1024, 5120, 10240, 524288, 1048524,
      1048575, 1048576, 1048577, 1100000, 1572864, 10485760 }

MaxCommandLen == 6

CommandRunes == << "/","b","i","n","/","s","l","e","e","p"," ","1","0","0" >>

\* a record with every column, its command cut to n runes
LineRecord(n) ==
    [PID |-> 1234, PPID |-> 1, User |-> Prefix(UserRunes, 8),
     CPUPct |-> 253, MemPct |-> 152, RSSKB |-> 10240,
     StartTime |-> NilTime, CPUTime |-> Duration(0, 0),
     Command |-> Prefix(CommandRunes, n)]

\* the graphics of a root, of a last child and of a grandchild
TreeGraphics ==
    { [prefix |-> << >>, branch |-> Branch(<< >>, TRUE, FALSE)],
      [prefix |-> << " " >>, branch |-> Branch(<< " " >>, TRUE, TRUE)],
      [prefix |-> << " ", "u2502", " " >>,
       branch |-> Branch(<< " ", "u2502", " " >>, FALSE, FALSE)] }

\* the widths that main() computes for such a record
LineWidths == [maxUserLen |-> 10, maxStartLen |-> 5, maxTimeLen |-> 8]

\* unknown, too narrow for the ellipsis, and around the length of the lines
TermWidths == {0, 2, 3} \cup (60 .. 64 + MaxCommandLen)

MaxArgs == 3

\* the arguments a command line is made of
ArgTokens ==
    UserFlags
    \cup { << "b", "o", "b" >>, << "-", "s" >>,
           LongUsers }

ArgLists == UNION { [1 .. n -> ArgTokens] : n \in 0 .. MaxArgs }

\* what user.Current() returns: the invoking user, or an error
Lookups ==
    { [err |-> FALSE, Username |-> Alice], [err |-> TRUE, Username |-> << >>] }

MaxCpuDays == 2

\* what ps prints in the TIME column for h hours, m minutes and s seconds
ClockText(h, m, s) ==
    ZeroPad(h, 2) \o << ":" >> \o ZeroPad(m, 2) \o << ":" >> \o ZeroPad(s, 2)

\* TIME columns: the empty one, times below a day, times of MaxCpuDays days
\* at most with the days plain and zero-padded, and one that lacks a field
LinuxTimes ==
    { << >>, << "1","2",":","3","4" >> }
    \cup { ClockText(h, m, s) :
             h \in {0, 1, 9, 10, 23}, m \in {0, 5, 59}, s \in {0, 7, 59} }
    \cup { dd \o << "-" >> \o ClockText(h, m, s) :
             dd \in { Itoa(d) : d \in 1 .. MaxCpuDays }
                    \cup { ZeroPad(d, 2) : d \in 1 .. MaxCpuDays },
             h \in {0, 23}, m \in {0, 59}, s \in {0, 59} }

\* the state of main()'s variables while a function is applied on its own
Apart ==
    /\ processes = << >>
    /\ pidToProcess = << >>
    /\ pidToChildren = << >>
    /\ skipPids = {}
    /\ proktreePid = -1
    /\ matchingPids = {}
    /\ pidsToShow = NilShow
    /\ rootPids = << >>
    /\ rootIdx = 0
    /\ out = << >>
    /\ maxUserLen = 0
    /\ maxStartLen = 0
    /\ maxTimeLen = 0

CallInit ==
    /\ Apart
    /\ cli = NoFilters
    /\ pc = "call"
    /\ fnRet = << >>
    /\ locals = << >>
    /\ \/ /\ fn = "formatCPUTime"
          /\ fnArgs \in [cpuTime : CpuTimes]
          /\ now = Noon
       \/ /\ fn = "formatStartTime"
          /\ now \in Clocks
          /\ fnArgs \in [startTime : StartTimes(now)]
       \/ /\ fn = "formatRSS"
          /\ fnArgs \in [rssKB : RssValues]
          /\ now = Noon
       \/ /\ fn = "centerText"
          /\ fnArgs \in [text : { Prefix(TextRunes, n) : n \in 0 .. MaxTextLen },
                         width : 0 .. MaxWidth]
          /\ now = Noon
       \/ /\ fn = "truncateUser"
          /\ fnArgs \in [user : { Prefix(UserRunes, n) : n \in 0 .. MaxUserChars },
                         showFullUser : BOOLEAN]
          /\ now = Noon
       \/ /\ fn = "printLine"
          /\ fnArgs \in [p : { LineRecord(n) : n \in 0 .. MaxCommandLen },
                         tree : TreeGraphics, termWidth : TermWidths,
                         showFullCommand : BOOLEAN]
          /\ now = Noon
       \/ /\ fn = "parseUserArgs"
          /\ fnArgs \in [args : ArgLists, current : Lookups]
          /\ now = Noon
       \/ /\ fn = "parseLinuxCPUTime"
          /\ fnArgs \in [timeStr : LinuxTimes]
          /\ now = Noon

\* the call of the function named has returned
Returned(name) == pc = "returned" /\ fn = name

\* the call of fn returns ret
Return(name, ret) ==
    /\ pc = "call"
    /\ fn = name
    /\ fnRet' = ret
    /\ pc' = "returned"
    /\ UNCHANGED << processes, cli, pidToProcess, pidToChildren, skipPids,
                    proktreePid, matchingPids, pidsToShow, rootPids, rootIdx,
                    out, now, maxUserLen, maxStartLen, maxTimeLen, fn, fnArgs,
                    locals >>

CallFormatCPUTime ==
    Return("formatCPUTime", formatCPUTime(fnArgs.cpuTime))

CallFormatStartTime ==
    Return("formatStartTime", formatStartTime(fnArgs.startTime, now))

CallFormatRSS ==
    Return("formatRSS", formatRSS(fnArgs.rssKB))

CallCenterText ==
    Return("centerText", centerText(fnArgs.text, fnArgs.width))

CallTruncateUser ==
    Return("truncateUser", truncateUser(fnArgs.user, fnArgs.showFullUser))

\* lines 207-230: the line is assembled, cut to the terminal and printed
CallPrintLine ==
    LET line == FormatLine(fnArgs.p, LineWidths, fnArgs.tree.prefix,
                           fnArgs.tree.branch, FALSE, now)
    IN  Return("printLine",
               [line |-> line,
                printed |-> TruncateLine(line, fnArgs.termWidth,
                                         fnArgs.showFullCommand)])

\* line 32
CallParseUserArgs ==
    Return("parseUserArgs", parseUserArgs(fnArgs.args))

\* part_001 lines 225-250
CallParseLinuxCPUTime ==
    Return("parseLinuxCPUTime", parseLinuxCPUTime(fnArgs.timeStr))

\* lines 35-50: kong.Parse fills cli from the arguments that parseUserArgs
\* returned and the default user is added; when kong.Parse rejects the
\* arguments it ends the program and cli stays as it was
ParseCommandLine ==
    /\ Returned("parseUserArgs")
    /\ LET k == KongParse(fnRet.args, cli)
       IN  IF k.ok
           THEN /\ cli' = [k.cli EXCEPT
                              !.Users = DefaultUser(k.cli.Users,
                                                    fnRet.userFlagWithoutArg,
                                                    fnArgs.current)]
                /\ pc' = "parsed"
           ELSE /\ cli' = cli
                /\ pc' = "exit"
    /\ UNCHANGED << processes, pidToProcess, pidToChildren, skipPids,
                    proktreePid, matchingPids, pidsToShow, rootPids, rootIdx,
                    out, now, maxUserLen, maxStartLen, maxTimeLen, callVars >>

CallNext ==
    \/ CallFormatCPUTime
    \/ CallFormatStartTime
    \/ CallFormatRSS
    \/ CallCenterText
    \/ CallTruncateUser
    \/ CallPrintLine
    \/ CallParseUserArgs
    \/ ParseCommandLine
    \/ CallParseLinuxCPUTime

CallSpec == CallInit /\ [][CallNext]_vars

-----------------------------------------------------------------------------
(* Vocabulary of the properties, stated over the snapshot and the graph *)

\* filterProcesses has returned
Filtered == pc \in {"filtered", "sorted", "print"}

Running == DOMAIN pidToProcess

PpidOf(pid) == pidToProcess[pid].PPID

\* S and the pids one ppid link above a pid of S
UpStep(S) ==
    S \cup { PpidOf(p) : p \in { x \in S \cap Running : PpidOf(x) > 0 } }

\* S and the pids one childrenOf link below a pid of S
DownStep(S) ==
    S \cup UNION { Range(ChildrenOf(pidToChildren, p)) : p \in S }

\* the least set that holds S and is closed under the ppid link
RECURSIVE UpClosure(_)
UpClosure(S) == IF UpStep(S) = S THEN S ELSE UpClosure(UpStep(S))

\* the least set that holds S and is closed under the childrenOf link
RECURSIVE DownClosure(_)
DownClosure(S) == IF DownStep(S) = S THEN S ELSE DownClosure(DownStep(S))

\* sub occurs in s: s is some a, then sub, then some b
Occurs(sub, s) ==
    \E i \in 0 .. Len(s) : \E j \in i .. Len(s) : SubSeq(s, i + 1, j) = sub

\* sub occurs in s when the case of the letters is ignored
OccursIgnoringCase(sub, s) ==
    \E i \in 0 .. Len(s) :
        /\ i + Len(sub) <= Len(s)
        /\ \A k \in 1 .. Len(sub) : ToLowerRune(s[i + k]) = ToLowerRune(sub[k])

SatisfiesPid(r)     == \E k \in 1 .. Len(cli.PIDs) : cli.PIDs[k] = Itoa(r.PID)
SatisfiesUser(r)    == \E k \in 1 .. Len(cli.Users) : cli.Users[k] = r.User
SatisfiesString(r)  ==
    \E k \in 1 .. Len(cli.SearchStrings) : Occurs(cli.SearchStrings[k], r.Command)
SatisfiesStringCase(r) ==
    \E k \in 1 .. Len(cli.SearchStringsCase) :
        OccursIgnoringCase(cli.SearchStringsCase[k], r.Command)

\* the records of the snapshot that satisfy an entry of one of the four lists
Satisfying ==
    { r \in Range(processes) :
        \/ SatisfiesPid(r)
        \/ SatisfiesUser(r)
        \/ SatisfiesString(r)
        \/ SatisfiesStringCase(r) }

\* the number of filter lists that are not empty
ActiveLists ==
    Cardinality({ f \in {"PIDs", "Users", "SearchStrings", "SearchStringsCase"} :
                    Len(cli[f]) > 0 })

\* the pids of the lines written so far
Emitted == { out[k].pid : k \in 1 .. Len(out) }

\* pid may be displayed: no filter is active, or it is in the display set
Permitted(pid) == pidsToShow.isNil \/ pid \in pidsToShow.pids

-----------------------------------------------------------------------------
(* C1 - C10 *)

\* C1: with a filter active, the display set filterProcesses returns is the
\* matched pids, the pids above a match along ppid links and the pids below a
\* match along childrenOf links, and nothing else.
C1_LineageClosure ==
    (Filtered /\ HasFilters(cli)) =>
        /\ ~ pidsToShow.isNil
        /\ pidsToShow.pids = UpClosure(matchingPids) \cup DownClosure(matchingPids)

\* the only match has an unmatched parent and an unmatched child, and both
\* are in the display set
C1_Witness ==
    /\ Filtered /\ HasFilters(cli)
    /\ \E m \in Running :
          /\ matchingPids = {m}
          /\ PpidOf(m) \in Running /\ PpidOf(m) \in pidsToShow.pids
          /\ \E c \in Running : PpidOf(c) = m /\ c \in pidsToShow.pids

\* C2: findMatchingPids marks exactly the processes outside the skip set that
\* satisfy at least one entry of at least one of the four lists (OR).
C2_OrFilters ==
    (Filtered /\ HasFilters(cli)) =>
        matchingPids = { r.PID : r \in Satisfying } \ skipPids

\* two lists are active and a matched process satisfies only one of them
C2_Witness ==
    /\ Filtered /\ ActiveLists >= 2
    /\ \E r \in Range(processes) :
          /\ r.PID \in matchingPids
          /\ SatisfiesString(r) /\ ~ SatisfiesUser(r)

\* C3: no pid of the skip set is ever written as a line.
C3_SkippedNeverEmitted == Emitted \cap skipPids = {}

\* the run is over, lines were written, and a skipped pid that satisfies the
\* filter and is in the display set was not
C3_Witness ==
    /\ Done /\ HasFilters(cli) /\ out # << >>
    /\ \E r \in Satisfying : r.PID \in skipPids \cap pidsToShow.pids

\* the pids strictly above pid along ppid links
AncestorsOf(pid) == UpClosure({pid}) \ {pid}

\* the running children of pid, by the ppid the snapshot records for them
ChildrenByPpid(pid) == { c \in Running : PpidOf(c) = pid }

\* c would be shown if reached: not skipped and permitted to display
Displayable(c) == c \notin skipPids /\ Permitted(c)

\* C4 as stated: skipping removes one node only, so a non-skipped child of a
\* skipped process that may be displayed is written as a line.
C4_ChildOfSkippedEmitted ==
    Done =>
        \A c \in Running :
            (PpidOf(c) \in skipPids /\ Displayable(c)) => c \in Emitted

\* C4, amended: skipping removes the node with its whole subtree; no line is
\* ever written for a process that has a skipped pid above it.
C4_SkipHidesSubtree ==
    \A k \in 1 .. Len(out) : AncestorsOf(out[k].pid) \cap skipPids = {}

\* the run is over, the parent of a skipped process was written, and a child of
\* that skipped process that may be displayed was not
C4_Witness ==
    /\ Done
    /\ \E c \in Running :
          /\ PpidOf(c) \in skipPids /\ Displayable(c) /\ c \notin Emitted
          /\ PpidOf(c) \in Running /\ PpidOf(PpidOf(c)) \in Emitted

\* the top of the tree of pid: the last running pid up its ppid links
RECURSIVE TopOf(_)
TopOf(pid) ==
    IF pid \in Running /\ PpidOf(pid) > 0 /\ PpidOf(pid) \in Running
    THEN TopOf(PpidOf(pid))
    ELSE pid

\* lines i and j are of children of one process
Siblings(i, j) ==
    /\ PpidOf(out[i].pid) = PpidOf(out[j].pid)
    /\ PpidOf(out[i].pid) > 0

\* C5: the children of a process are written in ascending pid order, and the
\* trees of the roots in ascending order of root pid, whatever the order of the
\* records.
C5_AscendingOrder ==
    \A i \in 1 .. Len(out) : \A j \in (i + 1) .. Len(out) :
        /\ TopOf(out[i].pid) <= TopOf(out[j].pid)
        /\ Siblings(i, j) => out[i].pid < out[j].pid

\* the records came in descending pid order, and either two siblings were
\* written, or a root tree holding a pid greater than the next root
C5_Witness ==
    /\ Done
    /\ Len(processes) >= 2 /\ processes[1].PID > processes[2].PID
    /\ \E i \in 1 .. Len(out) : \E j \in (i + 1) .. Len(out) :
          \/ Siblings(i, j)
          \/ TopOf(out[i].pid) < TopOf(out[j].pid) /\ out[i].pid > out[j].pid

\* the line is drawn with the last-sibling branch
LastBranch(line) == line.branch[1] = "u2514"

\* the line is drawn with the not-last branch
MiddleBranch(line) == line.branch[1] = "u251C"

\* the line is drawn in the has-children form
HasTee(line) == \E k \in 1 .. Len(line.branch) : line.branch[k] = "u252C"

\* C6: a displayed non-root process has the last-sibling branch exactly when
\* no displayed sibling follows it; skipped siblings and siblings outside the
\* display set do not count.
C6_LastDisplayedSibling ==
    \A k \in 1 .. Len(out) :
        out[k].prefix # << >> =>
            /\ LastBranch(out[k]) \/ MiddleBranch(out[k])
            /\ LastBranch(out[k]) <=>
                 ~ \E s \in ChildrenByPpid(PpidOf(out[k].pid)) :
                       s > out[k].pid /\ Displayable(s)

\* C7: a line has the has-children form exactly when the process has a child
\* that is not skipped and is displayed.
C7_HasChildrenForm ==
    \A k \in 1 .. Len(out) :
        LET visible == \E c \in ChildrenByPpid(out[k].pid) : Displayable(c)
            stem == IF visible THEN << "u2500", "u252C", "u2500" >>
                               ELSE << "u2500", "u2500", "u2500" >>
        IN  /\ HasTee(out[k]) <=> visible
            /\ IF out[k].prefix = << >>
               THEN out[k].branch = stem
               ELSE out[k].branch \in { << "u2514" >> \o stem, << "u251C" >> \o stem }

\* a line in the leaf form of a process whose only children are skipped, and a
\* line in the has-children form
C7_Witness ==
    /\ \E k \in 1 .. Len(out) :
          /\ ~ HasTee(out[k])
          /\ ChildrenByPpid(out[k].pid) # {}
          /\ ChildrenByPpid(out[k].pid) \subseteq skipPids
    /\ \E k \in 1 .. Len(out) : HasTee(out[k])

\* the records whose parent is 0 or not a record of the snapshot
ParentlessRecords ==
    { r \in Range(processes) :
        r.PPID = 0 \/ ~ \E q \in Range(processes) : q.PID = r.PPID }

\* C8: without filters the display set is null and the roots are exactly the
\* pids whose ppid is 0 or whose parent is not in byPid.
C8_NoFilterRoots ==
    (Filtered /\ ~ HasFilters(cli)) =>
        /\ pidsToShow.isNil
        /\ Range(rootPids) = { r.PID : r \in ParentlessRecords }
        /\ Len(rootPids) = Cardinality(Range(rootPids))

\* no filter, and the roots are one pid with ppid 0 and one whose parent exited
C8_Witness ==
    /\ Filtered /\ ~ HasFilters(cli)
    /\ \E a, b \in Range(rootPids) : PpidOf(a) = 0 /\ PpidOf(b) > 0

\* C9: with a filter active the roots are exactly the pids with ppid 0 that are
\* in the display set.
C9_FilteredRoots ==
    (Filtered /\ HasFilters(cli)) =>
        /\ Range(rootPids) =
              { r.PID : r \in { x \in Range(processes) :
                                  x.PPID = 0 /\ x.PID \in pidsToShow.pids } }
        /\ Len(rootPids) = Cardinality(Range(rootPids))

\* a match whose ppid chain ends at a parent that is not running: no root
\* stands for its branch, while another match has its root
C9_Witness ==
    /\ Filtered /\ HasFilters(cli)
    /\ \E m \in matchingPids :
          /\ PpidOf(TopOf(m)) > 0
          /\ TopOf(m) \notin Range(rootPids)
    /\ rootPids # << >>

\* C10: a filter that matches nothing is no error: the display set is empty
\* and not null, there is no root, and no process line is written.
C10_NoMatch ==
    (Filtered /\ HasFilters(cli) /\ { r.PID : r \in Satisfying } \ skipPids = {}) =>
        /\ ~ pidsToShow.isNil
        /\ pidsToShow.pids = {}
        /\ rootPids = << >>
        /\ out = << >>

\* the run is over with a filter active and a snapshot of running processes,
\* one of them with ppid 0, none of which matches
C10_Witness ==
    /\ Done /\ HasFilters(cli)
    /\ \E p \in Running : PpidOf(p) = 0
    /\ matchingPids = {}

-----------------------------------------------------------------------------
(* The assembled line and the terminal width *)

\* C11: a printed line is the first width-3 display characters of the
\* assembled line followed by "..." if and only if full-command mode is off,
\* the terminal width is greater than 0 and the assembled line has more
\* display characters than the width; in every other case it is the
\* assembled line.
C11_TruncatedIffTooWide ==
    Returned("printLine") =>
        LET width == fnArgs.termWidth
            tooWide == /\ ~fnArgs.showFullCommand
                       /\ width > 0
                       /\ Len(fnRet.line) > width
        IN  fnRet.printed =
                IF tooWide
                THEN SubSeq(fnRet.line, 1, width - 3) \o << ".", ".", "." >>
                ELSE fnRet.line

-----------------------------------------------------------------------------
(* The formatters *)

\* C12: formatCPUTime returns six spaces and "--" for a zero duration;
\* otherwise, with h, m, s the hours, minutes and seconds of the whole
\* seconds of the duration (the fraction dropped), it returns h right-justified
\* in 5 columns followed by "hrs" when h >= 24 and zero-padded HH:MM:SS when
\* h < 24; exactly 24h gives "   24hrs" and 23h59m59s gives "23:59:59"; the
\* result has 8 characters for every duration below 100000 hours.
C12_CpuTimeFormat ==
    Returned("formatCPUTime") =>
        LET d == fnArgs.cpuTime
            h == d.sec \div 3600
            m == (d.sec \div 60) % 60
            s == d.sec % 60
            TwoDigits(n) == << Digits[(n \div 10) + 1], Digits[(n % 10) + 1] >>
        IN  /\ (d.sec = 0 /\ d.nsec = 0) =>
                   fnRet = << " ", " ", " ", " ", " ", " ", "-", "-" >>
            /\ (~(d.sec = 0 /\ d.nsec = 0) /\ h >= 24) =>
                   /\ Len(fnRet) = IF Len(Itoa(h)) < 5 THEN 8 ELSE Len(Itoa(h)) + 3
                   /\ SubSeq(fnRet, Len(fnRet) - 2, Len(fnRet)) = << "h", "r", "s" >>
                   /\ TrimLeft(SubSeq(fnRet, 1, Len(fnRet) - 3)) = Itoa(h)
            /\ (~(d.sec = 0 /\ d.nsec = 0) /\ h < 24) =>
                   fnRet = TwoDigits(h) \o << ":" >> \o TwoDigits(m)
                           \o << ":" >> \o TwoDigits(s)
            /\ d = Duration(86400, 0) =>
                   fnRet = << " ", " ", " ", "2", "4", "h", "r", "s" >>
            /\ d = Duration(86399, 0) =>
                   fnRet = << "2", "3", ":", "5", "9", ":", "5", "9" >>
            /\ h < 100000 => Len(fnRet) = 8

\* a duration of 24 hours and 99 hundredths of a second has been formatted:
\* the fraction is dropped and the hours form is used
C12_Witness ==
    /\ Returned("formatCPUTime")
    /\ fnArgs.cpuTime = Duration(86400, 990000000)
    /\ fnRet = << " ", " ", " ", "2", "4", "h", "r", "s" >>

\* C13: formatStartTime returns "--" for an absent timestamp; otherwise
\* zero-padded HH:MM when now - t is less than 24 hours, else the 3-letter
\* month and 2-digit day when the calendar year of t is that of now, else the
\* 4-digit year; the cases are decided in that order, and an absent timestamp
\* is never compared with the clock.
C13_StartTimeFormat ==
    Returned("formatStartTime") =>
        LET t == fnArgs.startTime
            c == Civil(t)
            TwoDigits(n) == << Digits[(n \div 10) + 1], Digits[(n % 10) + 1] >>
        IN  /\ t.isNil => fnRet = << "-", "-" >>
            /\ (~t.isNil /\ now.sec - t.sec < 86400) =>
                   fnRet = TwoDigits(c.hour) \o << ":" >> \o TwoDigits(c.minute)
            /\ (~t.isNil /\ now.sec - t.sec >= 86400 /\ c.year = Civil(now).year) =>
                   fnRet = MonthNames[c.month] \o TwoDigits(c.day)
            /\ (~t.isNil /\ now.sec - t.sec >= 86400 /\ c.year # Civil(now).year) =>
                   fnRet = Itoa(c.year) /\ Len(fnRet) = 4
            /\ (now = At(790 * 86400 + 36000, 0) /\ t = At(789 * 86400 + 36000, 0)) =>
                   fnRet = << "F", "e", "b", "2", "9" >>
            /\ (now = At(730 * 86400 + 1800, 0) /\ t = At(728 * 86400 + 1800, 0)) =>
                   fnRet = << "2", "0", "2", "3" >>

\* half an hour into 1 January a start of two hours before, in the year
\* before, has been formatted as its time of day
C13_Witness ==
    /\ Returned("formatStartTime")
    /\ now = At(730 * 86400 + 1800, 0)
    /\ fnArgs.startTime = At(730 * 86400 + 1800 - 7200, 0)
    /\ fnRet = << "2", "2", ":", "3", "0" >>

\* C14: formatRSS renders kb/1048576 to one decimal with the suffix G exactly
\* when kb >= 1048576 and kb/1024 to one decimal with the suffix M for every
\* smaller value: 1048576 gives "1.0G", 10240 gives "10.0M" and 1048575 is
\* rendered in M.
C14_RssUnit ==
    Returned("formatRSS") =>
        LET kb == fnArgs.rssKB
            unit == fnRet[Len(fnRet)]
            number == SubSeq(fnRet, 1, Len(fnRet) - 1)
        IN  /\ unit = "G" <=> kb >= 1048576
            /\ unit = "M" <=> kb < 1048576
            /\ number = Fixed1(kb, IF kb >= 1048576 THEN 1048576 ELSE 1024)
            /\ kb = 1048576 => fnRet = << "1", ".", "0", "G" >>
            /\ kb = 10240 => fnRet = << "1", "0", ".", "0", "M" >>
            /\ kb = 1048575 => fnRet[Len(fnRet)] = "M"

\* the largest value below the G threshold has been formatted, in M
C14_Witness ==
    /\ Returned("formatRSS")
    /\ fnArgs.rssKB = 1048575
    /\ fnRet = << "1", "0", "2", "4", ".", "0", "M" >>

\* C15: centerText(text, width) returns text unchanged when len(text) >=
\* width; otherwise a string of exactly width characters: floor((width-len)/2)
\* spaces, text, and the remaining spaces, so that the right padding is the
\* left padding or one more.
C15_CenterText ==
    Returned("centerText") =>
        LET text == fnArgs.text
            width == fnArgs.width
            left == (width - Len(text)) \div 2
            right == width - Len(text) - left
        IN  IF Len(text) >= width THEN fnRet = text
            ELSE /\ Len(fnRet) = width
                 /\ \A i \in 1 .. left : fnRet[i] = " "
                 /\ SubSeq(fnRet, left + 1, left + Len(text)) = text
                 /\ \A i \in left + Len(text) + 1 .. width : fnRet[i] = " "
                 /\ right \in {left, left + 1}

\* a text of two characters has been centred in five columns, with one space
\* before and two after
C15_Witness ==
    /\ Returned("centerText")
    /\ fnArgs = [text |-> << "H", "I" >>, width |-> 5]
    /\ fnRet = << " ", "H", "I", " ", " " >>

\* C16: truncateUser returns the name unchanged in full-username mode or when
\* it has at most 10 characters, otherwise its first 7 characters and "...";
\* outside full-username mode the result has at most 10 characters; a name of
\* 10 characters is not truncated and one of 11 is.
C16_TruncateUser ==
    Returned("truncateUser") =>
        LET user == fnArgs.user
        IN  /\ (fnArgs.showFullUser \/ Len(user) <= 10) => fnRet = user
            /\ (~fnArgs.showFullUser /\ Len(user) > 10) =>
                   /\ Len(fnRet) = 10
                   /\ \A i \in 1 .. 7 : fnRet[i] = user[i]
                   /\ \A i \in 8 .. 10 : fnRet[i] = "."
            /\ ~fnArgs.showFullUser => Len(fnRet) <= 10
            /\ Len(user) = 10 => fnRet = user
            /\ (Len(user) = 11 /\ ~fnArgs.showFullUser) => fnRet # user

\* a name of 11 characters has been truncated
C16_Witness ==
    /\ Returned("truncateUser")
    /\ ~fnArgs.showFullUser
    /\ Len(fnArgs.user) = 11
    /\ fnRet = << "v", "e", "r", "y", "l", "o", "n", ".", ".", "." >>

-----------------------------------------------------------------------------
(* The column widths *)

\* C17: after the column widths are calculated the START width is at least
\* 5, the TIME width at least 8 and the USER width at least 10, and each is at
\* least the length of the formatted start time, of the formatted cpu time
\* and of the displayed user name of every record of the snapshot, skipped or
\* excluded by the filter or not.
C17_ColumnWidths ==
    pc = "print" =>
        /\ maxStartLen >= 5
        /\ maxTimeLen >= 8
        /\ maxUserLen >= 10
        /\ \A k \in 1 .. Len(processes) :
               LET r == processes[k]
               IN  /\ maxStartLen >= Len(formatStartTime(r.StartTime, now))
                   /\ maxTimeLen >= Len(formatCPUTime(r.CPUTime))
                   /\ maxUserLen >= Len(truncateUser(r.User, cli.ShowFullUser))

\* the widths have been calculated for a snapshot in which the one longest
\* user name belongs to a skipped record and the one longest cpu time to a
\* record that the filter excludes
C17_Witness ==
    /\ pc = "print"
    /\ maxUserLen > 10
    /\ maxTimeLen > 8
    /\ \E k \in 1 .. Len(processes) :
           /\ processes[k].PID \in skipPids
           /\ Len(processes[k].User) = maxUserLen
           /\ \A j \in 1 .. Len(processes) :
                  j # k => Len(processes[j].User) < maxUserLen
    /\ \E k \in 1 .. Len(processes) :
           /\ ~pidsToShow.isNil
           /\ processes[k].PID \notin pidsToShow.pids
           /\ Len(formatCPUTime(processes[k].CPUTime)) = maxTimeLen
           /\ \A j \in 1 .. Len(processes) :
                  j # k => Len(formatCPUTime(processes[j].CPUTime)) < maxTimeLen

-----------------------------------------------------------------------------
(* The user flag without a value *)

\* the i-th argument is -u or --user and is the last argument or is followed
\* by an argument that begins with "-"
Valueless(a, i) ==
    /\ a[i] \in UserFlags
    /\ \/ i = Len(a)
       \/ (a[i + 1] # << >> /\ a[i + 1][1] = "-")

\* the arguments from the i-th on that are not valueless user flags
RECURSIVE KeptFrom(_, _)
KeptFrom(a, i) ==
    IF i > Len(a) THEN << >>
    ELSE (IF Valueless(a, i) THEN << >> ELSE << a[i] >>) \o KeptFrom(a, i + 1)

\* the values that follow the -u and --user of a list of arguments
RECURSIVE KongUsers(_)
KongUsers(args) ==
    IF args = << >> THEN << >>
    ELSE IF Head(args) \in UserFlags /\ Len(args) >= 2
    THEN << args[2] >> \o KongUsers(Tail(Tail(args)))
    ELSE KongUsers(Tail(args))

\* parseUserArgs has returned what the claim says of it
ParsedAsClaimed ==
    (fn = "parseUserArgs" /\ pc \in {"returned", "parsed", "exit"}) =>
        /\ fnRet.userFlagWithoutArg <=>
               \E i \in 1 .. Len(fnArgs.args) : Valueless(fnArgs.args, i)
        /\ fnRet.args = KeptFrom(fnArgs.args, 1)

\* C18 as stated: parseUserArgs reports a user flag without value exactly when
\* some -u or --user is the last argument or is followed by an argument
\* beginning with "-", removes exactly those occurrences and returns the other
\* arguments in their order, after which the invoking user's name is appended
\* to the user filter list.
C18_InvokingUserAppended ==
    /\ ParsedAsClaimed
    /\ (pc = "parsed" /\ fnRet.userFlagWithoutArg) =>
           cli.Users = Append(KongUsers(fnRet.args), Alice)

\* C18, amended: parseUserArgs reports and removes exactly the valueless
\* occurrences of -u and --user and keeps the other arguments in their order;
\* when kong.Parse accepts what is left and a valueless occurrence was
\* reported, the invoking user's name is appended to the user filter list if
\* user.Current() succeeds; nothing is appended when it fails, when no
\* valueless occurrence was reported, or when kong.Parse rejects what is
\* left and the program ends.
C18_UserFlagDefault ==
    /\ ParsedAsClaimed
    /\ pc = "parsed" =>
           cli.Users =
               IF fnRet.userFlagWithoutArg /\ ~fnArgs.current.err
               THEN Append(KongUsers(fnRet.args), fnArgs.current.Username)
               ELSE KongUsers(fnRet.args)
    /\ pc = "exit" => cli.Users = << >>

\* the command line -u -u bob has been parsed: the first -u was removed, the
\* second kept with its value, and the invoking user added after bob
C18_Witness ==
    /\ pc = "parsed"
    /\ fnArgs.args = << << "-", "u" >>, << "-", "u" >>, << "b", "o", "b" >> >>
    /\ fnRet.args = << << "-", "u" >>, << "b", "o", "b" >> >>
    /\ fnRet.userFlagWithoutArg
    /\ cli.Users = << << "b", "o", "b" >>, Alice >>

-----------------------------------------------------------------------------
(* The order of the output *)

\* the pids of S in ascending order
RECURSIVE Ascending(_)
Ascending(S) ==
    IF S = {} THEN << >>
    ELSE LET p == CHOOSE x \in S : \A y \in S : x <= y
         IN  << p >> \o Ascending(S \ {p})

\* the lines of the trees of roots[i], roots[i+1], ...
RECURSIVE LinesOfRoots(_, _, _, _, _, _)
LinesOfRoots(byPid, children, skip, show, roots, i) ==
    IF i > Len(roots) THEN << >>
    ELSE printProcessTree(byPid, children, skip, show, roots[i], << >>,
                          i = Len(roots))
         \o LinesOfRoots(byPid, children, skip, show, roots, i + 1)

\* the lines that the record list and the command line determine when the
\* roots are taken in ascending order
LinesOfInput ==
    LET g == BuildGraph(processes)
        r == filterProcesses(g.byPid, g.children, g.skip, cli)
    IN  LinesOfRoots(g.byPid, g.children, g.skip, r.show,
                     Ascending(r.roots), 1)

\* C19: the output is deterministic: for a fixed record list, filter
\* configuration, widths and clock the lines written are the same sequence
\* whatever the order in which the pid-keyed maps are iterated, namely the
\* sequence determined by the record list and the filter configuration alone.
C19_DeterministicOutput ==
    Done => out = LinesOfInput

\* main() has returned after printing the trees of two roots or more, which
\* it collected from a map in an unspecified order
C19_Witness ==
    /\ Done
    /\ Len(rootPids) >= 2
    /\ \A i \in 1 .. Len(rootPids) :
           \E k \in 1 .. Len(out) : out[k].pid = rootPids[i]

-----------------------------------------------------------------------------
(* The tree prefix *)

\* the line of pid is the top of a printed tree: its parent was not written
IsTop(pid) == pid \notin Running \/ PpidOf(pid) \notin Emitted

\* the pids from the top of the printed tree of pid down to pid
RECURSIVE PathTo(_)
PathTo(pid) ==
    IF IsTop(pid) THEN << pid >> ELSE Append(PathTo(PpidOf(pid)), pid)

\* no displayed child of the parent of a follows a
LastDisplayedChild(a) ==
    ~ \E s \in ChildrenByPpid(PpidOf(a)) : s > a /\ Displayable(s)

\* the segments of path[i], path[i+1], ... up to the parent of the last pid
RECURSIVE Segments(_, _)
Segments(path, i) ==
    IF i >= Len(path) THEN << >>
    ELSE (IF LastDisplayedChild(path[i]) THEN << " ", " " >>
                                         ELSE << "u2502", " " >>)
         \o Segments(path, i + 1)

\* C20: a displayed process at depth d >= 1 has the prefix of one space and
\* one two-character segment for each ancestor at depths 1..d-1, two spaces
\* if that ancestor was the last child of its parent and U+2502 and a space
\* otherwise; a root has the empty prefix, so that the tree graphics follow the
\* columns after two spaces for a root and three for a process below a root.
C20_PrefixSegments ==
    \A k \in 1 .. Len(out) :
        out[k].prefix =
            IF IsTop(out[k].pid) THEN << >>
            ELSE << " " >> \o Segments(PathTo(out[k].pid), 2)

-----------------------------------------------------------------------------
(* C21 - C30 *)

\* the places in the input of the records whose command holds the tool's name
ToolRecords == { k \in 1 .. Len(processes) :
                   Contains(processes[k].Command, ToolName) }

FirstToolRecord == CHOOSE k \in ToolRecords : \A j \in ToolRecords : k <= j

LastToolRecord == CHOOSE k \in ToolRecords : \A j \in ToolRecords : k >= j

\* the ps helpers: the running processes whose command begins with "ps "
PsHelpers == { c \in Running : HasPrefix(pidToProcess[c].Command, PsPrefix) }

\* the record at place k of the input is the invoker: its pid is the anchor
\* and the skipped ps helpers are its direct children
InvokerIs(k) ==
    /\ proktreePid = processes[k].PID
    /\ \A c \in PsHelpers :
           c \in skipPids <=> PpidOf(c) = processes[k].PID

\* C22 as stated: of the records whose command holds the tool's name, the
\* first in input order is the invoker, and the ps children of that process
\* are the helpers skipped.
C22_FirstMatchIsInvoker ==
    (pc # "start" /\ ToolRecords # {}) => InvokerIs(FirstToolRecord)

\* C22: of the records whose command holds the tool's name, the last in
\* input order is the invoker, and the ps children of that process are the
\* helpers skipped.
C22_LastMatchIsInvoker ==
    (pc # "start" /\ ToolRecords # {}) => InvokerIs(LastToolRecord)

\* two records hold the tool's name and a ps child of the later one is skipped
C22_Witness ==
    /\ pc # "start"
    /\ Cardinality(ToolRecords) >= 2
    /\ \E c \in PsHelpers \cap skipPids :
           PpidOf(c) = processes[LastToolRecord].PID

\* the running processes whose command holds the tool's name
ToolPids == { p \in Running : Contains(pidToProcess[p].Command, ToolName) }

\* C23: once the graph is built, every skipped pid is a key of byPid, and the
\* skip set is exactly the pids whose command holds the tool's name together
\* with the direct children of the anchor whose command begins with "ps ".
C23_SkipSet ==
    pc # "start" =>
        /\ skipPids \subseteq Running
        /\ skipPids = ToolPids \cup
               { c \in PsHelpers : proktreePid > 0 /\ PpidOf(c) = proktreePid }

\* the invoker and a ps child of it are skipped, and a ps process that is
\* not its child is not
C23_Witness ==
    /\ pc # "start"
    /\ ToolPids # {}
    /\ \E c \in PsHelpers : c \in skipPids /\ PpidOf(c) = proktreePid
    /\ \E c \in PsHelpers : c \notin skipPids

\* the same children are recorded for every pid, in whatever order
SameChildren(before, after) ==
    /\ DOMAIN after = DOMAIN before
    /\ \A k \in DOMAIN before :
           /\ Len(after[k]) = Len(before[k])
           /\ Range(after[k]) = Range(before[k])

\* C24: once the graph is built, no step of filtering or rendering changes
\* byPid or the skip set, and none changes which children are recorded for a
\* pid (their order may change); once filtering has returned the display
\* set, no step changes it.
C24_GraphReadOnly ==
    [][ /\ pc # "start" =>
             /\ pidToProcess' = pidToProcess
             /\ skipPids' = skipPids
             /\ SameChildren(pidToChildren, pidToChildren')
        /\ Filtered => pidsToShow' = pidsToShow ]_vars

\* main() has returned after a filtered run that wrote a line, and the walk
\* left a children list in another order than the build recorded
C24_Witness ==
    /\ Done
    /\ ~pidsToShow.isNil
    /\ out # << >>
    /\ pidToChildren # BuildGraph(processes).children

\* the pids of the calls of printProcessTree that are still to run
PendingPids ==
    IF locals = << >> THEN {}
    ELSE { locals.stack[k].pid : k \in 1 .. Len(locals.stack) }

\* C25: with one record per pid, no pid on a cycle of ppid links is a root or
\* is ever passed to printProcessTree, and once the roots are being walked
\* every call returns and main() ends.
C25_WalkTerminates ==
    /\ [](pc = "print" =>
             \A p \in Range(rootPids) \cup PendingPids :
                 ~OnCycle(pidToProcess, p))
    /\ (pc = "print") ~> LoopDone

\* main() has returned after writing a line, and the snapshot holds two
\* processes that are each the parent of the other
C25_Witness ==
    /\ LoopDone
    /\ out # << >>
    /\ \E p \in Running : PpidOf(p) # p /\ OnCycle(pidToProcess, p)

\* C26: with a filter active, the ppid of every running process of the
\* display set is in the display set when it is above 0; so no process
\* outside the display set has a process of the display set below it, and
\* the parent of every line written for a process that has one is written.
C26_UpwardClosed ==
    (Filtered /\ ~pidsToShow.isNil) =>
        /\ \A p \in pidsToShow.pids \cap Running :
               PpidOf(p) > 0 => PpidOf(p) \in pidsToShow.pids
        /\ \A q \in Running \ pidsToShow.pids :
               DownClosure({q}) \cap pidsToShow.pids = {}
        /\ \A p \in Emitted : PpidOf(p) > 0 => PpidOf(p) \in Emitted

\* main() has returned after writing the line of a match whose parent and
\* grandparent run and do not match
C26_Witness ==
    /\ Done
    /\ ~pidsToShow.isNil
    /\ \E p \in matchingPids \cap Emitted :
           /\ PpidOf(p) \in Running \ matchingPids
           /\ PpidOf(PpidOf(p)) \in Running \ matchingPids

\* the number of lines written for pid
LinesOf(pid) == Cardinality({ k \in 1 .. Len(out) : out[k].pid = pid })

\* every process from pid up along the ppid links runs and is not skipped, so
\* the links end at a process with ppid 0
ChainToRoot(pid) ==
    /\ UpClosure({pid}) \subseteq Running
    /\ UpClosure({pid}) \cap skipPids = {}

\* C27: no process is written on more than one line, and when main() has
\* returned from a filtered run, every match whose ppid chain is of running,
\* non-skipped processes up to one with ppid 0 is written on exactly one.
C27_EmittedOnce ==
    /\ \A p \in Running : LinesOf(p) <= 1
    /\ (Done /\ ~pidsToShow.isNil) =>
           \A m \in matchingPids : ChainToRoot(m) => LinesOf(m) = 1

\* main() has returned from a filtered run in which a match under a parent
\* that does not match was written on one line, and its parent on another
C27_Witness ==
    /\ Done
    /\ ~pidsToShow.isNil
    /\ \E m \in matchingPids :
           /\ PpidOf(m) > 0 /\ PpidOf(m) \notin matchingPids
           /\ ChainToRoot(m)
           /\ LinesOf(m) = 1 /\ LinesOf(PpidOf(m)) = 1

\* line j is of a child of the process of line i, drawn one level deeper
ChildLine(i, j) ==
    /\ PpidOf(out[j].pid) = out[i].pid
    /\ Len(out[j].prefix) = Len(ChildPrefix(out[i].prefix, TRUE))

\* s is a sibling of a that is walked after it: a later child of the parent
\* of a, or a later root when a is a root
LaterSibling(a, s) ==
    /\ s > a
    /\ \/ PpidOf(a) > 0 /\ PpidOf(s) = PpidOf(a)
       \/ a \in Range(rootPids) /\ s \in Range(rootPids)

\* C28: a line is drawn in the has-children form exactly when the next line
\* written is of one of its own children, one level deeper; and the line of a
\* process that is not a root comes after the line of its parent and before
\* every line of a later sibling of one of its ancestors.
C28_WellFormedTree ==
    /\ \A k \in 1 .. Len(out) :
           HasTee(out[k]) <=> (k < Len(out) /\ ChildLine(k, k + 1))
    /\ \A k \in 1 .. Len(out) :
           out[k].prefix # << >> =>
               /\ \E i \in 1 .. (k - 1) : out[i].pid = PpidOf(out[k].pid)
               /\ \A a \in AncestorsOf(out[k].pid) \cap Running :
                  \A j \in 1 .. Len(out) :
                      LaterSibling(a, out[j].pid) => k < j

\* main() has returned from a filtered run, and the line of a process with
\* children was followed by the line of a later child, an earlier one being
\* outside the display set
C28_Witness ==
    /\ Done
    /\ ~pidsToShow.isNil
    /\ \E k \in 1 .. (Len(out) - 1) :
           /\ HasTee(out[k])
           /\ ChildLine(k, k + 1)
           /\ \E c \in ChildrenByPpid(out[k].pid) :
                  c < out[k + 1].pid /\ c \notin skipPids /\ ~Permitted(c)

\* C29: with full-command mode off and a terminal wider than 3, the printed
\* line has at most as many display characters as the terminal is wide.
C29_FitsWidth ==
    (Returned("printLine") /\ ~fnArgs.showFullCommand /\ fnArgs.termWidth > 3)
        => Len(fnRet.printed) <= fnArgs.termWidth

\* a line with tree glyphs, longer than the terminal is wide, was printed
\* with exactly as many display characters as the width
C29_Witness ==
    /\ Returned("printLine")
    /\ ~fnArgs.showFullCommand /\ fnArgs.termWidth > 3
    /\ \E k \in 1 .. Len(fnRet.line) : fnRet.line[k] \in Glyphs
    /\ Len(fnRet.line) > fnArgs.termWidth
    /\ Len(fnRet.printed) = fnArgs.termWidth

\* the number that the two decimal digits a and b write
TwoDigitNumber(a, b) ==
    10 * (CHOOSE d \in 0 .. 9 : Digits[d + 1] = a)
    + (CHOOSE d \in 0 .. 9 : Digits[d + 1] = b)

\* s is a TIME string HH:MM:SS: two digits, a colon, two digits below 60, a
\* colon, two digits below 60
IsClockText(s) ==
    /\ Len(s) = 8
    /\ s[3] = ":" /\ s[6] = ":"
    /\ \A k \in {1, 2, 4, 5, 7, 8} : s[k] \in Range(Digits)
    /\ TwoDigitNumber(s[4], s[5]) < 60
    /\ TwoDigitNumber(s[7], s[8]) < 60

\* the number a string of digits writes, read from the left
RECURSIVE NumberOf(_, _)
NumberOf(s, acc) ==
    IF s = << >> THEN acc
    ELSE NumberOf(Tail(s),
                  10 * acc + (CHOOSE d \in 0 .. 9 : Digits[d + 1] = Head(s)))

\* s is DD-HH:MM:SS with the days written in k digits
IsDaysText(s, k) ==
    /\ Len(s) = k + 9
    /\ \A j \in 1 .. k : s[j] \in Range(Digits)
    /\ s[k + 1] = "-"
    /\ IsClockText(SubSeq(s, k + 2, Len(s)))

\* C30: formatCPUTime of what parseLinuxCPUTime reads from HH:MM:SS with
\* HH < 24 is the string read, but for 00:00:00, which like the empty string
\* gives six spaces and "--"; from DD-HH:MM:SS with DD >= 1 it is DD*24+HH
\* right-justified in five columns and "hrs".
C30_LinuxCpuTimeRoundTrip ==
    Returned("parseLinuxCPUTime") =>
        LET s == fnArgs.timeStr
            text == formatCPUTime(fnRet)
            zero == << "0","0",":","0","0",":","0","0" >>
        IN  /\ (IsClockText(s) /\ TwoDigitNumber(s[1], s[2]) < 24 /\ s # zero)
                   => text = s
            /\ (s = << >> \/ s = zero)
                   => text = << " "," "," "," "," "," ","-","-" >>
            /\ \A k \in 1 .. (Len(s) - 9) :
                   (IsDaysText(s, k) /\ NumberOf(SubSeq(s, 1, k), 0) >= 1) =>
                       LET hours == NumberOf(SubSeq(s, 1, k), 0) * 24
                                    + TwoDigitNumber(s[k + 2], s[k + 3])
                       IN  text = PadLeft(Itoa(hours), 5) \o << "h","r","s" >>

\* "2-23:59:59" has been read: two days and 23 hours are 71 hours
C30_Witness ==
    /\ Returned("parseLinuxCPUTime")
    /\ fnArgs.timeStr = << "2","-","2","3",":","5","9",":","5","9" >>
    /\ fnRet = Duration(71 * 3600 + 59 * 60 + 59, 0)
    /\ formatCPUTime(fnRet) = << " "," "," ","7","1","h","r","s" >>

====
